---- MODULE Spec2Model ----
(***************************************************************************)
(* Model of the batch agents of IMKAN-AI-Agents: the Site Plan agent with  *)
(* its persisted application history (the ledger), the Affection Plan      *)
(* agent with its batch payment validation, the older copy of the          *)
(* Affection Plan agent kept in dari-title-deed-agent.ts, and the Title    *)
(* Deed agent.  The browser, the portal and Page Intelligence are the      *)
(* environment: every observation, extraction and action outcome is an     *)
(* input chosen with \E.                                                   *)
(***************************************************************************)
EXTENDS Integers, Sequences, FiniteSets, TLC

\* ------------------------------------------------------------------ bounds
MaxAttemptsOption == 3
MaxClock == 4
MaxRows == 3
MaxFileItems == 2
MaxBackoffMultiplier == 3
MaxPlots == 2
MaxRuns == 2
MaxAppIds == 2
MaxFee == 1
MaxBalance == 2
MaxRedirects == 1

PlotSet == 1..MaxPlots
AppIds == 1..MaxAppIds

\* ------------------------------------------------- constants of the program
\* applicationId: string | null
NoApplicationId == 0
\* private readonly prePayCheckEnabled: boolean = false
prePayCheckEnabled == FALSE
\* retry(..., { maxAttempts: 3, ... }) around the Pay Now click
PayMaxAttempts == 3
\* private readonly MAX_DOWNLOAD_RETRIES = 5
MAX_DOWNLOAD_RETRIES == 5
\* if ((i + 1) % 10 === 0) checkpoint in processAllPlots
CheckpointEvery == 10

\* defaults of RetryOptions: maxAttempts = 3, delayMs = 1000, backoffMultiplier = 2
DefaultMaxAttempts == 3
DefaultDelayMs == 1000
DefaultBackoffMultiplier == 2

\* const MAX_OBSERVATIONS = 120 in downloadCertificate
MAX_OBSERVATIONS == 120
\* const MAX_ATTEMPTS = 60 in viewAndDownloadApplication
MAX_ATTEMPTS == 60
\* const checkIntervalMs = 5000 in the download-page wait of searchAndFilterPlot
checkIntervalMs == 5000

\* const MAX_ATTEMPTS = 10 in waitForAndExtractApplicationId
MAX_EXTRACT_ATTEMPTS == 10

Agents == {"SitePlan", "AffectionPlan", "AffectionPlanCopy", "TitleDeed"}
IsAffection(a) == a \in {"AffectionPlan", "AffectionPlanCopy"}

VARIABLES
  agent,                  \* which agent class this deployment runs
  paymentEnabled,         \* config.payment.enabled (Site Plan)
  plots,                  \* this.plots, in file order
  amount,                 \* the fee the portal shows per plot
  run,                    \* number of the process invocation
  pc,                     \* position of the workflow
  i,                      \* loop index of the batch loop (1-based)
  wallet,                 \* DARI wallet balance on the portal
  storage,                \* data/dari-applications-history.json
  persistedApplications,  \* this.persistedApplications
  sitePlans,              \* this.sitePlans
  record,                 \* the SitePlanRecord of the plot in progress
  redirects,              \* depth of the payment-gateway re-entry
  attempt,                \* attempt number inside retry() of the pay click
  failedDownloads,        \* indices of this.sitePlans selected by processFailedDownloads
  j,                      \* cursor of processFailedDownloads
  results,                \* this.results (Affection Plan)
  applicationId,          \* local applicationId of searchAndFilterPlot
  applications,           \* this.applications (Title Deed)
  pending,                \* indices of this.applications left in the current download pass
  abortCause,             \* why executeWorkflow ended with an error
  shortage,               \* shortage reported by the batch validation error
  paidCount,              \* history: times a plot reached Paid, all runs
  runPay,                 \* history: pay action invoked for the plot in this run
  charged,                \* history: the portal took a payment for the plot in this run
  ledgerAtStart,          \* history: ledger held an entry when the plot started
  batchChecks,            \* history: batch validations computed in this run
  batchPassed,            \* history: a batch validation passed in this run
  firstBalance,           \* history: <<balance>> seen by the first funds validation of this run
  lowAfterPass,           \* history: plot saw balance < fee after the batch check passed
  retryCall,              \* one call of retry() of utils/retry.ts
  poll,                   \* one readiness poll of an agent
  extraction,             \* one extraction of the application id
  ledgerOp,               \* the application history used on its own
  startup,                \* executeWorkflow up to the batch loop, step by step
  fundsCheck,             \* one validation of the wallet balance against the fee
  login,                  \* one wait for the UAE Pass approval
  selection               \* one selection of the DARI wallet payment method

conf == <<agent, paymentEnabled, plots, amount>>
siteVars == <<sitePlans, record, redirects, failedDownloads, j>>
ledgerVars == <<storage, persistedApplications>>
affVars == <<results, applicationId, shortage>>
histPay == <<paidCount, runPay, charged>>
histBatch == <<batchChecks, batchPassed, firstBalance, lowAfterPass>>
tdVars == <<applications, pending>>
unitVars == <<retryCall, poll, extraction, ledgerOp, startup, fundsCheck, login, selection>>
vars == <<conf, run, pc, i, wallet, ledgerVars, siteVars, attempt, affVars,
          tdVars, abortCause, histPay, ledgerAtStart, histBatch, unitVars>>

\* ------------------------------------------------------------ data shapes
\* PersistedApplicationData without its timestamps; the absent Map entry
NoEntry == [applicationId |-> NoApplicationId, downloaded |-> FALSE]
EmptyLedger == [p \in PlotSet |-> NoEntry]
MissingStorage == [exists |-> FALSE, entries |-> EmptyLedger]

\* the record literal at the top of searchAndProcessPlot
NewSitePlanRecord(p) ==
  [plotNumber |-> p, applicationId |-> NoApplicationId, paid |-> FALSE,
   walletBalanceSufficient |-> FALSE, certificateDownloaded |-> FALSE,
   downloadedViaFallback |-> FALSE, downloadAttempts |-> 0,
   alreadyExistedInApplications |-> FALSE, error |-> "none"]

\* PlotResult of the Affection Plan agent
PlotResult(p, id, paid, downloaded, err) ==
  [plotNumber |-> p, applicationId |-> id, paymentCompleted |-> paid,
   downloadCompleted |-> downloaded, error |-> err]

CurrentPlot == plots[i]

\* ----------------------------------------------------------------- ledger
\* savePersistedApplications: writeFileSync of the whole Map; a write error
\* is caught and logged, the file keeps its old content
SaveLedger(apps, writeOk) ==
  IF writeOk THEN [exists |-> TRUE, entries |-> apps] ELSE storage

\* loadPersistedApplications: missing file -> nothing loaded
LoadLedger(st) == IF st.exists THEN st.entries ELSE EmptyLedger

\* addPersistedApplication: Map.set of a new entry
AddPersisted(apps, p, id, downloaded) ==
  [apps EXCEPT ![p] = [applicationId |-> id, downloaded |-> downloaded]]

\* updatePersistedApplicationDownloadStatus: only an existing entry changes
HasEntry(apps, p) == apps[p] # NoEntry
UpdateDownloadStatus(apps, p, downloaded) ==
  IF HasEntry(apps, p) THEN [apps EXCEPT ![p].downloaded = downloaded] ELSE apps

Bump(f, p) == [f EXCEPT ![p] = @ + 1]

\* no call of retry(), no poll and no extraction in progress
NoRetryCall == [state |-> "idle"]
NoPoll == [state |-> "idle"]
NoExtraction == [state |-> "idle"]
NoLedgerOp == [state |-> "idle"]
NoStartup == [state |-> "idle"]
NoFundsCheck == [state |-> "idle"]
NoLogin == [state |-> "idle"]
NoSelection == [state |-> "idle"]

\* ------------------------------------------------------------------- Init
\* the agent after construction, before executeWorkflow
AgentInit ==
  /\ agent \in Agents
  /\ paymentEnabled \in BOOLEAN
  /\ plots \in {[k \in 1..n |-> k] : n \in 1..MaxPlots}
  /\ amount \in 1..MaxFee
  /\ wallet \in 0..MaxBalance
  /\ (agent # "SitePlan" => paymentEnabled)
  /\ (agent = "TitleDeed" => amount = 1 /\ wallet = 0)
  /\ run = 1
  /\ pc = "start"
  /\ i = 1
  /\ storage = MissingStorage
  /\ persistedApplications = EmptyLedger
  /\ sitePlans = <<>>
  /\ record = NewSitePlanRecord(1)
  /\ redirects = 0
  /\ attempt = 1
  /\ failedDownloads = <<>>
  /\ j = 0
  /\ results = <<>>
  /\ applicationId = NoApplicationId
  /\ applications = <<>>
  /\ pending = <<>>
  /\ abortCause = "none"
  /\ shortage = 0
  /\ paidCount = [p \in PlotSet |-> 0]
  /\ runPay = [p \in PlotSet |-> FALSE]
  /\ charged = [p \in PlotSet |-> FALSE]
  /\ ledgerAtStart = [p \in PlotSet |-> FALSE]
  /\ batchChecks = 0
  /\ batchPassed = FALSE
  /\ firstBalance = <<>>
  /\ lowAfterPass = [p \in PlotSet |-> FALSE]

Init ==
  /\ AgentInit
  /\ retryCall = NoRetryCall
  /\ poll = NoPoll
  /\ extraction = NoExtraction
  /\ ledgerOp = NoLedgerOp /\ startup = NoStartup
  /\ fundsCheck = NoFundsCheck /\ login = NoLogin
  /\ selection = NoSelection

\* -------------------------------------------------- start of a workflow run
\* executeWorkflow up to the batch loop: initialize, (Site Plan: load the
\* history only if prePayCheckEnabled), loadPlotNumbers, login, service page.
\* A login that is not verified in time throws and ends the run.
FirstStep(a) ==
  CASE a = "SitePlan" -> "beginPlot"
    [] IsAffection(a) -> "affSearch"
    [] OTHER -> "tdSearch"

ExecuteWorkflow_Start ==
  /\ pc = "start"
  /\ \E loggedIn \in BOOLEAN :
       IF loggedIn
       THEN /\ pc' = FirstStep(agent)
            /\ abortCause' = abortCause
       ELSE /\ pc' = "aborted"
            /\ abortCause' = "auth"
  /\ persistedApplications' =
       IF agent = "SitePlan" /\ prePayCheckEnabled
       THEN LoadLedger(storage) ELSE persistedApplications
  /\ i' = 1
  /\ UNCHANGED <<conf, unitVars, run, wallet, storage, siteVars, attempt, affVars,
                 tdVars, histPay, ledgerAtStart, histBatch>>

\* ------------------------------------------- Site Plan: searchAndProcessPlot
SiteEnd(rec) ==
  /\ record' = rec
  /\ pc' = "plotDone"

\* variant of the early return that hands the record back marked as paid
SiteFail_MarksPaid(err) == SiteEnd([record EXCEPT !.error = err, !.paid = TRUE])

SiteFail(err) == SiteEnd([record EXCEPT !.error = err])

\* entry of searchAndProcessPlot: the fresh record and, only if
\* prePayCheckEnabled, the local-history shortcut (download via the
\* Applications page; on failure or no download it falls through to the
\* normal workflow)
SitePlan_BeginPlot ==
  /\ agent = "SitePlan"
  /\ pc = "beginPlot"
  /\ LET p == CurrentPlot
         fresh == NewSitePlanRecord(p)
         persisted == persistedApplications[p]
     IN /\ ledgerAtStart' = [ledgerAtStart EXCEPT ![p] =
               HasEntry(persistedApplications, p)
               \/ (storage.exists /\ HasEntry(storage.entries, p))]
        /\ IF prePayCheckEnabled /\ HasEntry(persistedApplications, p)
           THEN \E smart \in {"downloaded", "timeout", "throw"}, writeOk \in BOOLEAN :
                  LET known == [fresh EXCEPT !.applicationId = persisted.applicationId,
                                             !.paid = TRUE,
                                             !.alreadyExistedInApplications = TRUE]
                  IN CASE smart = "downloaded" ->
                            /\ SiteEnd([known EXCEPT !.certificateDownloaded = TRUE,
                                                     !.downloadedViaFallback = TRUE])
                            /\ persistedApplications' =
                                 UpdateDownloadStatus(persistedApplications, p, TRUE)
                            /\ storage' = SaveLedger(persistedApplications', writeOk)
                       [] smart = "timeout" ->
                            /\ record' = [known EXCEPT !.error = "DownloadPending"]
                            /\ pc' = "search"
                            /\ UNCHANGED ledgerVars
                       [] OTHER ->
                            /\ record' = [known EXCEPT !.alreadyExistedInApplications = FALSE]
                            /\ pc' = "search"
                            /\ UNCHANGED ledgerVars
           ELSE /\ record' = fresh
                /\ pc' = "search"
                /\ UNCHANGED ledgerVars
  /\ UNCHANGED <<conf, unitVars, run, i, wallet, sitePlans, redirects, failedDownloads, j, attempt, affVars,
                 tdVars, abortCause, histPay, histBatch>>

\* steps 9..: type the plot number, search, guard against the payment
\* gateway redirect (re-enter searchAndProcessPlot), detect "no property",
\* select the property, Proceed and wait for the certificate page
SitePlan_SearchPlot ==
  /\ agent = "SitePlan"
  /\ pc = "search"
  /\ \E seen \in {"throw", "redirect", "notOwned", "found"} :
       CASE seen = "throw" ->
              SiteFail("Error") /\ UNCHANGED redirects
         [] seen = "redirect" ->
              /\ redirects < MaxRedirects
              /\ redirects' = redirects + 1
              /\ pc' = "beginPlot"
              /\ UNCHANGED record
         [] seen = "notOwned" ->
              SiteFail("NotOwned") /\ UNCHANGED redirects
         [] OTHER ->
              /\ pc' = "extractId"
              /\ UNCHANGED <<record, redirects>>
  /\ UNCHANGED <<conf, unitVars, run, i, wallet, ledgerVars, sitePlans, failedDownloads, j, attempt, affVars,
                 tdVars, abortCause, histPay, ledgerAtStart, histBatch>>

\* step 5: extractApplicationId (AI extraction, then regex fallback; null if
\* both find nothing).  An extracted id is saved to the history at once; with
\* no id the workflow "will continue with payment section"
SitePlan_ExtractApplicationId ==
  /\ agent = "SitePlan"
  /\ pc = "extractId"
  /\ \E id \in AppIds \cup {NoApplicationId}, writeOk \in BOOLEAN :
       IF id # NoApplicationId
       THEN /\ record' = [record EXCEPT !.applicationId = id]
            /\ persistedApplications' =
                 AddPersisted(persistedApplications, CurrentPlot, id, FALSE)
            /\ storage' = SaveLedger(persistedApplications', writeOk)
       ELSE /\ writeOk
            /\ UNCHANGED <<record, ledgerVars>>
  /\ pc' = "selectWallet"
  /\ UNCHANGED <<conf, unitVars, run, i, wallet, sitePlans, redirects, failedDownloads, j, attempt, affVars,
                 tdVars, abortCause, histPay, ledgerAtStart, histBatch>>

\* steps 6-7: find the DARI wallet option, select it and verify the
\* selection with ensureDariWalletSelected
SitePlan_SelectWallet ==
  /\ agent = "SitePlan"
  /\ pc = "selectWallet"
  /\ \E seen \in {"throw", "optionMissing", "notSelected", "selected"} :
       IF seen = "selected"
       THEN pc' = "funds" /\ UNCHANGED record
       ELSE SiteFail("Error")
  /\ UNCHANGED <<conf, unitVars, run, i, wallet, ledgerVars, sitePlans, redirects, failedDownloads, j, attempt,
                 affVars, tdVars, abortCause, histPay, ledgerAtStart, histBatch>>

\* if (!this.config.payment.enabled): testing mode, nothing is paid
TestingMode_AlwaysLive == FALSE
TestingMode == ~paymentEnabled

\* steps 8-11: extract wallet balance and payment amount and compare them.
\* Both extractions return a string holding a number or null ("missing"),
\* so the parsed values are never NaN.
SitePlan_ValidateFunds ==
  /\ agent = "SitePlan"
  /\ pc = "funds"
  /\ \E seen \in {"throw", "missing", "ok"} :
       CASE seen \in {"throw", "missing"} -> SiteFail("Error")
         [] OTHER ->
              IF wallet >= amount
              THEN IF TestingMode
                   THEN SiteEnd([record EXCEPT !.walletBalanceSufficient = TRUE])
                   ELSE /\ record' = [record EXCEPT !.walletBalanceSufficient = TRUE]
                        /\ pc' = "pay"
              ELSE SiteFail("InsufficientFunds")
  /\ UNCHANGED <<conf, unitVars, run, i, wallet, ledgerVars, sitePlans, redirects, failedDownloads,
                 j, attempt, affVars, tdVars, abortCause, histPay, ledgerAtStart,
                 histBatch>>

\* step 12: observe the Pay Now button
SitePlan_FindPayNow ==
  /\ agent = "SitePlan"
  /\ pc = "pay"
  /\ \E seen \in {"throw", "notFound", "found"} :
       IF seen = "found"
       THEN pc' = "payClick" /\ UNCHANGED record
       ELSE SiteFail("Error")
  /\ attempt' = 1
  /\ UNCHANGED <<conf, unitVars, run, i, wallet, ledgerVars, sitePlans, redirects, failedDownloads, j, affVars,
                 tdVars, abortCause, histPay, ledgerAtStart, histBatch>>

\* the portal's reaction to a Pay Now click that went through
Charge(w) == IF w >= amount THEN w - amount ELSE w

\* step 13: one attempt of retry(click Pay Now, maxAttempts 3); a click that
\* does not throw reaches the portal, which takes the payment or refuses it
SitePlan_ClickPayNow ==
  /\ agent = "SitePlan"
  /\ pc = "payClick"
  /\ runPay' = [runPay EXCEPT ![CurrentPlot] = TRUE]
  /\ \E click \in {"accepted", "rejected", "throws"} :
       IF click # "throws"
       THEN /\ wallet' = IF click = "accepted" THEN Charge(wallet) ELSE wallet
            /\ charged' = [charged EXCEPT ![CurrentPlot] = (click = "accepted")]
            /\ pc' = "verifyPayment"
            /\ UNCHANGED <<record, attempt>>
       ELSE /\ UNCHANGED <<wallet, charged>>
            /\ IF attempt = PayMaxAttempts
               THEN SiteFail("Error") /\ UNCHANGED attempt
               ELSE attempt' = attempt + 1 /\ UNCHANGED <<record, pc>>
  /\ UNCHANGED <<conf, unitVars, run, i, ledgerVars, sitePlans, redirects, failedDownloads, j, affVars,
                 tdVars, abortCause, paidCount, ledgerAtStart, histBatch>>

\* the page the portal shows after a pay click that did not throw: a
\* confirmation when it took the payment, an error message when it refused
PageAfterPay == IF charged[CurrentPlot] THEN "ok" ELSE "errorMessage"

\* record.paid = true, set before downloadCertificate is called
MarkPaid_Skipped(rec) == rec
MarkPaid(rec) == [rec EXCEPT !.paid = TRUE]

\* step 14: observe the page after the click; an error indicator means the
\* payment failed, otherwise record.paid = true
SitePlan_VerifyPayment ==
  /\ agent = "SitePlan"
  /\ pc = "verifyPayment"
  /\ \E seen \in {"throw", PageAfterPay} :
       IF seen = "ok"
       THEN /\ record' = MarkPaid(record)
            /\ paidCount' = Bump(paidCount, CurrentPlot)
            /\ pc' = "download"
       ELSE SiteFail("Error") /\ UNCHANGED paidCount
  /\ UNCHANGED <<conf, unitVars, run, i, wallet, ledgerVars, sitePlans, redirects, failedDownloads, j, attempt,
                 affVars, tdVars, abortCause, runPay, charged, ledgerAtStart, histBatch>>

\* step 15: downloadCertificate: observe until the download button appears,
\* an error shows or the observations run out; every failure stays in the
\* record (the function never throws).  When the button is found and the
\* click fails in all its retries, the loop ends with downloadButtonFound
\* set: nothing is downloaded and no error is recorded.
SitePlan_DownloadCertificate ==
  /\ agent = "SitePlan"
  /\ pc = "download"
  /\ LET tried == [record EXCEPT !.downloadAttempts = @ + 1]
     IN \E seen \in {"errorPage", "errorMessage", "clickThrows", "timeout", "downloaded"},
           writeOk \in BOOLEAN :
          IF seen = "downloaded"
          THEN /\ SiteEnd([tried EXCEPT !.certificateDownloaded = TRUE])
               /\ persistedApplications' =
                    UpdateDownloadStatus(persistedApplications, CurrentPlot, TRUE)
               /\ storage' = IF HasEntry(persistedApplications, CurrentPlot)
                             THEN SaveLedger(persistedApplications', writeOk)
                             ELSE storage
          ELSE /\ writeOk
               /\ SiteEnd([tried EXCEPT !.error =
                             CASE seen = "timeout" -> "DownloadPending"
                               [] seen = "clickThrows" -> @
                               [] OTHER -> "Error"])
               /\ UNCHANGED ledgerVars
  /\ UNCHANGED <<conf, unitVars, run, i, wallet, sitePlans, redirects, failedDownloads, j, attempt, affVars,
                 tdVars, abortCause, histPay, ledgerAtStart, histBatch>>

\* ------------------------------------------------ Site Plan: processAllPlots
\* the rest of one loop iteration after searchAndProcessPlot returned: push
\* the record, navigate back for the next plot (a failure is caught, and so
\* is a failure of the recovery), checkpoint every 10 plots, and after the
\* last plot the final save
SitePlan_PlotDone ==
  /\ agent = "SitePlan"
  /\ pc = "plotDone"
  /\ sitePlans' = Append(sitePlans, record)
  /\ \E navigatedBack \in BOOLEAN, checkpointOk \in BOOLEAN, finalOk \in BOOLEAN :
       LET last == i = Len(plots)
           afterCheckpoint ==
             IF i % CheckpointEvery = 0
             THEN SaveLedger(persistedApplications, checkpointOk) ELSE storage
       IN /\ (last => navigatedBack)
          /\ (i % CheckpointEvery # 0 => checkpointOk)
          /\ (~last => finalOk)
          /\ storage' = IF last /\ finalOk
                        THEN [exists |-> TRUE, entries |-> persistedApplications]
                        ELSE afterCheckpoint
          /\ IF last
             THEN pc' = "recovery" /\ i' = i
             ELSE pc' = "beginPlot" /\ i' = i + 1
  /\ redirects' = 0
  /\ UNCHANGED <<conf, unitVars, run, wallet, persistedApplications, record, failedDownloads, j,
                 attempt, affVars, tdVars, abortCause, histPay, ledgerAtStart,
                 histBatch>>

\* ----------------------------------------- Site Plan: processFailedDownloads
NeedsRecovery(r) ==
  r.paid /\ ~r.certificateDownloaded /\ r.applicationId # NoApplicationId

\* Array.prototype.filter, as the indices kept: the members of S in 1..n,
\* ascending from k
RECURSIVE Ascending(_, _, _)
Ascending(S, k, n) ==
  IF k > n THEN <<>>
  ELSE (IF k \in S THEN <<k>> ELSE <<>>) \o Ascending(S, k + 1, n)

FilterFailed(seq) ==
  Ascending({k \in 1..Len(seq) : NeedsRecovery(seq[k])}, 1, Len(seq))

\* the filter at the top of processFailedDownloads; nothing to recover ends
\* the workflow without a save
SitePlan_ProcessFailedDownloads ==
  /\ agent = "SitePlan"
  /\ pc = "recovery"
  /\ failedDownloads' = FilterFailed(sitePlans)
  /\ IF failedDownloads' = <<>>
     THEN pc' = "done" /\ j' = j
     ELSE pc' = "recoverOne" /\ j' = 1
  /\ UNCHANGED <<conf, unitVars, run, i, wallet, ledgerVars, sitePlans, record, redirects, attempt,
                 affVars, tdVars, abortCause, histPay, ledgerAtStart, histBatch>>

\* one iteration of the recovery loop: Applications page, search by id,
\* viewAndDownloadApplication; after the last one the final save
SitePlan_RecoverOne ==
  /\ agent = "SitePlan"
  /\ pc = "recoverOne"
  /\ LET k == failedDownloads[j]
         r == sitePlans[k]
         last == j = Len(failedDownloads)
     IN \E seen \in {"downloaded", "timeout", "throw"}, writeOk \in BOOLEAN,
           finalOk \in BOOLEAN :
          LET apps == IF seen = "downloaded"
                      THEN UpdateDownloadStatus(persistedApplications, r.plotNumber, TRUE)
                      ELSE persistedApplications
              afterUpdate ==
                IF seen = "downloaded" /\ HasEntry(persistedApplications, r.plotNumber)
                THEN SaveLedger(apps, writeOk) ELSE storage
          IN /\ (~(seen = "downloaded" /\ HasEntry(persistedApplications, r.plotNumber))
                   => writeOk)
             /\ (~last => finalOk)
             /\ sitePlans' = [sitePlans EXCEPT ![k] =
                  CASE seen = "downloaded" ->
                         [r EXCEPT !.certificateDownloaded = TRUE,
                                   !.downloadedViaFallback = TRUE]
                    [] seen = "timeout" -> [r EXCEPT !.error = "DownloadPending"]
                    [] OTHER -> [r EXCEPT !.error = "Error"]]
             /\ persistedApplications' = apps
             /\ storage' = IF last /\ finalOk
                           THEN [exists |-> TRUE, entries |-> apps]
                           ELSE afterUpdate
             /\ IF last THEN pc' = "done" /\ j' = j
                        ELSE pc' = pc /\ j' = j + 1
  /\ UNCHANGED <<conf, unitVars, run, i, wallet, record, redirects, failedDownloads, attempt,
                 affVars, tdVars, abortCause, histPay, ledgerAtStart, histBatch>>

\* ------------------------------------------------------------- a new run
\* the process ends (normally, by an error or by a crash) and the agent is
\* invoked again: every field starts from its initializer, the history file
\* and the wallet are what they were
Restart ==
  /\ pc # "start"
  /\ run < MaxRuns
  /\ run' = run + 1
  /\ pc' = "start"
  /\ i' = 1
  /\ persistedApplications' = EmptyLedger
  /\ sitePlans' = <<>>
  /\ record' = NewSitePlanRecord(1)
  /\ redirects' = 0
  /\ failedDownloads' = <<>>
  /\ j' = 0
  /\ attempt' = 1
  /\ results' = <<>>
  /\ applicationId' = NoApplicationId
  /\ applications' = <<>>
  /\ pending' = <<>>
  /\ abortCause' = "none"
  /\ shortage' = 0
  /\ runPay' = [p \in PlotSet |-> FALSE]
  /\ charged' = [p \in PlotSet |-> FALSE]
  /\ ledgerAtStart' = [p \in PlotSet |-> FALSE]
  /\ batchChecks' = 0
  /\ batchPassed' = FALSE
  /\ firstBalance' = <<>>
  /\ lowAfterPass' = [p \in PlotSet |-> FALSE]
  /\ UNCHANGED <<conf, unitVars, wallet, storage, paidCount>>

\* ------------------------------------- Affection Plan: searchAndFilterPlot
\* (dari-affection-plan-agent.ts, and the older copy of the class kept in
\* dari-title-deed-agent.ts; the two differ where the text says so)
AlreadyTracked(res, p) == \E k \in 1..Len(res) : res[k].plotNumber = p

\* errorMessage.includes('Insufficient balance for batch') ||
\* includes('need') && includes('for') && includes('plots')
IsBatchValidationError(msg) == msg = "batch"

\* searchAndFilterPlot returned normally with this.results = res
AffReturn(res) ==
  /\ results' = res
  /\ pc' = "affNext"
  /\ UNCHANGED abortCause

\* searchAndFilterPlot threw msg with this.results = res: the catch of the
\* batch loop.  The agent re-throws a batch validation error, which ends
\* executeWorkflow; the older copy has no such test and tracks every error.
AffThrow(msg, res) ==
  IF agent = "AffectionPlan" /\ IsBatchValidationError(msg)
  THEN /\ results' = res
       /\ pc' = "aborted"
       /\ abortCause' = "batchFunds"
  ELSE /\ results' = IF AlreadyTracked(res, CurrentPlot) THEN res
                     ELSE Append(res, PlotResult(CurrentPlot, NoApplicationId, FALSE, FALSE,
                                                 IF IsBatchValidationError(msg)
                                                 THEN "BatchInsufficient" ELSE "Error"))
       /\ pc' = "affNext"
       /\ UNCHANGED abortCause

\* filter by plot number and look at the result list.  The agent tracks a
\* plot it does not own and navigates back (which may throw); the older copy
\* just returns.
Affection_SearchPlot ==
  /\ IsAffection(agent)
  /\ pc = "affSearch"
  /\ \E seen \in {"throw", "notOwned", "notOwnedNavThrows", "found"} :
       CASE seen = "throw" -> AffThrow("other", results)
         [] seen = "found" ->
              /\ pc' = "affExtract"
              /\ UNCHANGED <<results, abortCause>>
         [] OTHER ->
              IF agent = "AffectionPlan"
              THEN LET res == Append(results, PlotResult(CurrentPlot, NoApplicationId,
                                                         FALSE, FALSE, "NotOwned"))
                   IN IF seen = "notOwned" THEN AffReturn(res) ELSE AffThrow("other", res)
              ELSE seen = "notOwned" /\ AffReturn(results)
  /\ UNCHANGED <<conf, unitVars, run, i, wallet, ledgerVars, siteVars, attempt, applicationId,
                 shortage, tdVars, histPay, ledgerAtStart, histBatch>>

\* the application id: from the AI extraction, else from the first run of
\* 14 or more digits in the page text, else the plot is tracked as failed
Affection_ExtractApplicationId ==
  /\ IsAffection(agent)
  /\ pc = "affExtract"
  /\ \E seen \in {"throw", "ai", "regex", "none"}, id \in AppIds :
       CASE seen = "throw" ->
              /\ id = 1
              /\ AffThrow("other", results)
              /\ UNCHANGED applicationId
         [] seen = "none" ->
              /\ id = 1
              /\ AffReturn(Append(results, PlotResult(CurrentPlot, NoApplicationId,
                                                      FALSE, FALSE, "ExtractionFailed")))
              /\ UNCHANGED applicationId
         [] OTHER ->
              /\ applicationId' = id
              /\ pc' = "affWallet"
              /\ UNCHANGED <<results, abortCause>>
  /\ UNCHANGED <<conf, unitVars, run, i, wallet, ledgerVars, siteVars, attempt, shortage,
                 tdVars, histPay, ledgerAtStart, histBatch>>

\* select the DARI wallet radio button inside retry(); the selection is not
\* read back
Affection_SelectWallet ==
  /\ IsAffection(agent)
  /\ pc = "affWallet"
  /\ \E selected \in BOOLEAN :
       IF selected
       THEN pc' = "affFunds" /\ UNCHANGED <<results, abortCause>>
       ELSE AffThrow("other", results)
  /\ UNCHANGED <<conf, unitVars, run, i, wallet, ledgerVars, siteVars, attempt, applicationId,
                 shortage, tdVars, histPay, ledgerAtStart, histBatch>>

\* const totalRequired = amount * totalPlots
TotalRequired_SumMutant(fee, totalPlots) == fee + totalPlots
TotalRequired(fee, totalPlots) == fee * totalPlots

\* const shortage = totalRequired - balance
BatchShortage(totalRequired, balance) == totalRequired - balance

\* extract and parse balance and amount, then the funds validation: for the
\* "first plot" (no result tracked yet) the balance must cover every plot of
\* the batch, otherwise the error is tracked and thrown; for a later plot it
\* must cover this plot.  The balance read is what the wallet holds at that
\* moment, which other spending may have lowered.
Affection_ValidateFunds ==
  /\ IsAffection(agent)
  /\ pc = "affFunds"
  /\ \E seen \in {"throw", "nan", "ok"}, balance \in 0..wallet :
       LET p == CurrentPlot
           isFirstPlot == Len(results) = 0
           totalPlots == Len(plots)
           totalRequired == TotalRequired(amount, totalPlots)
           tracked(err) == Append(results, PlotResult(p, applicationId, FALSE, FALSE, err))
       IN CASE seen = "throw" ->
                 /\ balance = wallet
                 /\ AffThrow("other", results)
                 /\ UNCHANGED <<wallet, shortage, histBatch>>
            [] seen = "nan" ->
                 /\ balance = wallet
                 /\ AffReturn(tracked("ParseError"))
                 /\ UNCHANGED <<wallet, shortage, histBatch>>
            [] OTHER ->
                 /\ wallet' = balance
                 /\ firstBalance' = IF firstBalance = <<>> THEN <<balance>> ELSE firstBalance
                 /\ lowAfterPass' = [lowAfterPass EXCEPT ![p] = @ \/ (batchPassed /\ balance < amount)]
                 /\ IF isFirstPlot
                    THEN /\ batchChecks' = batchChecks + 1
                         /\ IF balance < totalRequired
                            THEN /\ shortage' = BatchShortage(totalRequired, balance)
                                 /\ AffThrow("batch", tracked("BatchInsufficient"))
                                 /\ UNCHANGED batchPassed
                            ELSE /\ batchPassed' = TRUE
                                 /\ pc' = "affPay"
                                 /\ UNCHANGED <<results, abortCause, shortage>>
                    ELSE /\ UNCHANGED <<batchChecks, batchPassed, shortage>>
                         /\ IF balance < amount
                            THEN AffReturn(tracked("InsufficientFunds"))
                            ELSE /\ pc' = "affPay"
                                 /\ UNCHANGED <<results, abortCause>>
  /\ UNCHANGED <<conf, unitVars, run, i, ledgerVars, siteVars, attempt, applicationId,
                 tdVars, histPay, ledgerAtStart>>

\* observe the Pay now button; without it the function returns (no result
\* is tracked)
Affection_FindPayNow ==
  /\ IsAffection(agent)
  /\ pc = "affPay"
  /\ \E seen \in {"throw", "notFound", "found"} :
       CASE seen = "throw" -> AffThrow("other", results)
         [] seen = "notFound" -> AffReturn(results)
         [] OTHER -> pc' = "affPayClick" /\ UNCHANGED <<results, abortCause>>
  /\ attempt' = 1
  /\ UNCHANGED <<conf, unitVars, run, i, wallet, ledgerVars, siteVars, applicationId, shortage,
                 tdVars, histPay, ledgerAtStart, histBatch>>

\* one attempt of retry(click Pay now, maxAttempts 3)
Affection_ClickPayNow ==
  /\ IsAffection(agent)
  /\ pc = "affPayClick"
  /\ runPay' = [runPay EXCEPT ![CurrentPlot] = TRUE]
  /\ \E click \in {"accepted", "rejected", "throws"} :
       IF click # "throws"
       THEN /\ wallet' = IF click = "accepted" THEN Charge(wallet) ELSE wallet
            /\ charged' = [charged EXCEPT ![CurrentPlot] = (click = "accepted")]
            /\ pc' = "affAwait"
            /\ UNCHANGED <<results, abortCause, attempt>>
       ELSE /\ UNCHANGED <<wallet, charged>>
            /\ IF attempt = PayMaxAttempts
               THEN AffThrow("other", results) /\ UNCHANGED attempt
               ELSE attempt' = attempt + 1 /\ UNCHANGED <<results, abortCause, pc>>
  /\ UNCHANGED <<conf, unitVars, run, i, ledgerVars, siteVars, applicationId, shortage,
                 tdVars, paidCount, ledgerAtStart, histBatch>>

\* wait for the certificate page, look for the download button, click it
\* (a failed click only clears downloadSuccess) and track the result
Affection_AwaitAndDownload ==
  /\ IsAffection(agent)
  /\ pc = "affAwait"
  /\ \E threw \in BOOLEAN, downloadSuccess \in BOOLEAN :
       IF threw
       THEN /\ ~downloadSuccess
            /\ AffThrow("other", results)
            /\ UNCHANGED paidCount
       ELSE /\ AffReturn(Append(results, PlotResult(CurrentPlot, applicationId, TRUE,
                                                    downloadSuccess, "none")))
            /\ paidCount' = Bump(paidCount, CurrentPlot)
  /\ UNCHANGED <<conf, unitVars, run, i, wallet, ledgerVars, siteVars, attempt, applicationId,
                 shortage, tdVars, runPay, charged, ledgerAtStart, histBatch>>

\* the end of one iteration of the batch loop: navigate back for the next
\* plot inside try/catch, then the next plot or the final summary
Affection_NextPlot ==
  /\ IsAffection(agent)
  /\ pc = "affNext"
  /\ \E navigatedBack \in BOOLEAN :
       IF i < Len(plots)
       THEN i' = i + 1 /\ pc' = "affSearch"
       ELSE navigatedBack /\ i' = i /\ pc' = "done"
  /\ applicationId' = NoApplicationId
  /\ UNCHANGED <<conf, unitVars, run, wallet, ledgerVars, siteVars, attempt, results, shortage,
                 tdVars, abortCause, histPay, ledgerAtStart, histBatch>>

NextAffection ==
  \/ Affection_SearchPlot
  \/ Affection_ExtractApplicationId
  \/ Affection_SelectWallet
  \/ Affection_ValidateFunds
  \/ Affection_FindPayNow
  \/ Affection_ClickPayNow
  \/ Affection_AwaitAndDownload
  \/ Affection_NextPlot

\* ------------------------------------------------------------ Title Deed
ApplicationRecord(p, id) ==
  [plotNumber |-> p, applicationId |-> id, downloaded |-> FALSE, retries |-> 0]

\* this.applications.filter(app => !app.downloaded)
NotDownloaded(apps) ==
  Ascending({k \in 1..Len(apps) : ~apps[k].downloaded}, 1, Len(apps))

\* this.applications.filter(app => !app.downloaded && app.retries < MAX_DOWNLOAD_RETRIES)
Retryable(apps) ==
  Ascending({k \in 1..Len(apps) :
               ~apps[k].downloaded /\ apps[k].retries < MAX_DOWNLOAD_RETRIES},
            1, Len(apps))

\* one iteration of processAllPlots up to the navigation: every failure of
\* searchPlotAndGenerateApplication is caught there and becomes null; an
\* application id is pushed to this.applications
TitleDeed_SearchPlot ==
  /\ agent = "TitleDeed"
  /\ pc = "tdSearch"
  /\ \E id \in AppIds \cup {NoApplicationId} :
       applications' = IF id # NoApplicationId
                       THEN Append(applications, ApplicationRecord(CurrentPlot, id))
                       ELSE applications
  /\ pc' = IF i < Len(plots) THEN "tdNavBack" ELSE "tdMenu"
  /\ UNCHANGED <<conf, unitVars, run, i, wallet, ledgerVars, siteVars, attempt, affVars, pending,
                 abortCause, histPay, ledgerAtStart, histBatch>>

\* navigateBackToTitleDeedService between two plots: the back click inside
\* retry() and try/catch, then the services menu as the alternative; a
\* failure of the alternative is caught nowhere in processAllPlots
TitleDeed_NavigateBack ==
  /\ agent = "TitleDeed"
  /\ pc = "tdNavBack"
  /\ \E seen \in {"back", "menu", "throw"} :
       IF seen = "throw"
       THEN /\ pc' = "aborted"
            /\ abortCause' = "navigation"
            /\ i' = i
       ELSE /\ pc' = "tdSearch"
            /\ i' = i + 1
            /\ UNCHANGED abortCause
  /\ UNCHANGED <<conf, unitVars, run, wallet, ledgerVars, siteVars, attempt, affVars, tdVars,
                 histPay, ledgerAtStart, histBatch>>

\* navigateToApplicationsMenu, then the filter at the top of
\* downloadTitleDeeds (first pass) or of retryPendingDownloads (later passes)
TitleDeed_StartPass ==
  /\ agent = "TitleDeed"
  /\ pc \in {"tdMenu", "tdRetry"}
  /\ \E opened \in BOOLEAN :
       IF ~opened
       THEN /\ pc' = "aborted"
            /\ abortCause' = "navigation"
            /\ UNCHANGED pending
       ELSE /\ pending' = IF pc = "tdMenu"
                          THEN NotDownloaded(applications)
                          ELSE Retryable(applications)
            /\ pc' = IF pending' = <<>> THEN "done" ELSE "tdDownload"
            /\ UNCHANGED abortCause
  /\ UNCHANGED <<conf, unitVars, run, i, wallet, ledgerVars, siteVars, attempt, affVars,
                 applications, histPay, ledgerAtStart, histBatch>>

\* downloadSingleTitleDeed for the next application of the pass; after the
\* last one, another pass while some application is neither downloaded nor
\* out of retries
TitleDeed_DownloadSingle ==
  /\ agent = "TitleDeed"
  /\ pc = "tdDownload"
  /\ LET k == Head(pending)
         app == applications[k]
     IN \E seen \in {"noResults", "throw", "notReady", "notReadyMenuThrows",
                     "downloaded", "downloadedMenuThrows"} :
          applications' = [applications EXCEPT ![k] =
            CASE seen \in {"noResults", "throw", "notReady"} ->
                   [app EXCEPT !.retries = @ + 1]
              [] seen = "notReadyMenuThrows" -> [app EXCEPT !.retries = @ + 2]
              [] seen = "downloaded" -> [app EXCEPT !.downloaded = TRUE]
              [] OTHER -> [app EXCEPT !.downloaded = TRUE, !.retries = @ + 1]]
  /\ pending' = Tail(pending)
  /\ pc' = IF pending' # <<>> THEN pc
           ELSE IF Retryable(applications') # <<>> THEN "tdRetry"
           ELSE "done"
  /\ UNCHANGED <<conf, unitVars, run, i, wallet, ledgerVars, siteVars, attempt, affVars,
                 abortCause, histPay, ledgerAtStart, histBatch>>

NextTitleDeed ==
  \/ TitleDeed_SearchPlot
  \/ TitleDeed_NavigateBack
  \/ TitleDeed_StartPass
  \/ TitleDeed_DownloadSingle

NextSitePlan ==
  \/ SitePlan_BeginPlot
  \/ SitePlan_SearchPlot
  \/ SitePlan_ExtractApplicationId
  \/ SitePlan_SelectWallet
  \/ SitePlan_ValidateFunds
  \/ SitePlan_FindPayNow
  \/ SitePlan_ClickPayNow
  \/ SitePlan_VerifyPayment
  \/ SitePlan_DownloadCertificate
  \/ SitePlan_PlotDone
  \/ SitePlan_ProcessFailedDownloads
  \/ SitePlan_RecoverOne

Next ==
  \/ ExecuteWorkflow_Start
  \/ Restart
  \/ NextSitePlan
  \/ NextAffection
  \/ NextTitleDeed

Spec == Init /\ [][Next]_vars

\* ------------------------------------------- final summary (Affection Plan)
\* the statistics showFinalSummary computes from this.plots and this.results
FinalSummary ==
  [totalPlotsUploaded |-> Len(plots),
   plotsAttempted |-> Len(results),
   plotsSkipped |-> Len(plots) - Len(results),
   paidPlots |-> Cardinality({k \in 1..Len(results) : results[k].paymentCompleted}),
   downloadedPlots |-> Cardinality({k \in 1..Len(results) : results[k].downloadCompleted})]

\* executeWorkflow calls showFinalSummary after the batch loop, and in the
\* catch of a batch validation error only if (this.results.length > 0)
FinalSummaryShown ==
  /\ agent = "AffectionPlan"
  /\ \/ pc = "done"
     \/ pc = "aborted" /\ abortCause = "batchFunds" /\ Len(results) > 0


\* one agent at a time
InitSitePlan == Init /\ agent = "SitePlan"
NextSitePlanRuns == ExecuteWorkflow_Start \/ Restart \/ NextSitePlan
SpecSitePlan == InitSitePlan /\ [][NextSitePlanRuns]_vars

InitAffection == Init /\ IsAffection(agent)
NextAffectionRuns == ExecuteWorkflow_Start \/ Restart \/ NextAffection
SpecAffection == InitAffection /\ [][NextAffectionRuns]_vars

InitTitleDeed == Init /\ agent = "TitleDeed"
NextTitleDeedRuns == ExecuteWorkflow_Start \/ Restart \/ NextTitleDeed
SpecTitleDeed == InitTitleDeed /\ [][NextTitleDeedRuns]_vars


\* ============================================================ utils/retry.ts
\* The agent variables stay in one state while a helper is studied on its own.
NotStarted == AgentInit /\ agent = "TitleDeed" /\ Len(plots) = 1

\* an optional field of RetryOptions: <<>> when left out, <<v>> when given
Undefined == <<>>
Given(S) == {Undefined} \cup {<<v>> : v \in S}
WithDefault(v, d) == IF v = Undefined THEN d ELSE v[1]
\* let lastError: Error, before the first failure
NoError == [isError |-> FALSE, message |-> "undefined"]

\* what fn() can reject with: an Error, or any other value (a string here)
Messages == {"timeout", "detached"}
Rejections == [isError : BOOLEAN, message : Messages]
\* lastError = error instanceof Error ? error : new Error(String(error))
WrapError(e) == IF e.isError THEN e ELSE [isError |-> TRUE, message |-> e.message]

RECURSIVE Pow(_, _)
Pow(b, e) == IF e = 0 THEN 1 ELSE b * Pow(b, e - 1)

RetryDelay_OffByOne(delayMs, backoffMultiplier, k) ==
  delayMs * Pow(backoffMultiplier, k)
\* const delay = delayMs * Math.pow(backoffMultiplier, attempt - 1)
RetryDelay(delayMs, backoffMultiplier, k) ==
  delayMs * Pow(backoffMultiplier, k - 1)

IsLastAttempt_OneEarly(k, maxAttempts) == k + 1 >= maxAttempts
\* if (attempt === maxAttempts) break
IsLastAttempt(k, maxAttempts) == k = maxAttempts

\* retry(fn, options): the options are destructured with their defaults
RetryWith(attemptsOptions) ==
  /\ retryCall.state = "idle"
  /\ \E maxAttempts \in Given(attemptsOptions),
        delayMs \in Given({2000}),
        backoffMultiplier \in Given(1..MaxBackoffMultiplier) :
       retryCall' =
         [state |-> IF 1 <= WithDefault(maxAttempts, DefaultMaxAttempts)
                    THEN "calling" ELSE "threw",
          maxAttempts |-> WithDefault(maxAttempts, DefaultMaxAttempts),
          delayMs |-> WithDefault(delayMs, DefaultDelayMs),
          backoffMultiplier |->
            WithDefault(backoffMultiplier, DefaultBackoffMultiplier),
          attempt |-> 1,
          calls |-> 0,
          raised |-> <<>>,
          delays |-> <<>>,
          lastError |-> NoError,
          thrown |-> NoError]
  /\ UNCHANGED <<conf, run, pc, i, wallet, ledgerVars, siteVars, attempt,
                 affVars, tdVars, abortCause, histPay, ledgerAtStart,
                 histBatch, poll, extraction, ledgerOp, startup,
              fundsCheck, login, selection>>

\* a call as the agents make it: maxAttempts left out or at least 1
Retry_Call == RetryWith(1..MaxAttemptsOption)

\* a call with any maxAttempts the options type admits, 0 included: the
\* loop condition fails at once and `throw lastError!` throws undefined
Retry_CallAny == RetryWith(0..MaxAttemptsOption)

\* one pass of the loop body: try { return await fn() } catch { ... } up to
\* the sleep
Retry_Attempt ==
  /\ retryCall.state = "calling"
  /\ \/ retryCall' = [retryCall EXCEPT !.state = "returned",
                                       !.calls = @ + 1]
     \/ \E error \in Rejections :
          LET failed == [retryCall EXCEPT !.calls = @ + 1,
                                          !.raised = Append(@, error),
                                          !.lastError = WrapError(error)]
          IN IF IsLastAttempt(retryCall.attempt, retryCall.maxAttempts)
             THEN retryCall' = [failed EXCEPT !.state = "threw",
                                              !.thrown = failed.lastError]
             ELSE retryCall' =
                    [failed EXCEPT
                       !.state = "sleeping",
                       !.delays =
                         Append(@, RetryDelay(retryCall.delayMs,
                                              retryCall.backoffMultiplier,
                                              retryCall.attempt))]
  /\ UNCHANGED <<conf, run, pc, i, wallet, ledgerVars, siteVars, attempt,
                 affVars, tdVars, abortCause, histPay, ledgerAtStart,
                 histBatch, poll, extraction, ledgerOp, startup,
              fundsCheck, login, selection>>

\* await sleep(delay) is over: attempt++, then the loop condition; when it
\* fails the loop is left and lastError is thrown
Retry_Sleep ==
  /\ retryCall.state = "sleeping"
  /\ retryCall' =
       IF retryCall.attempt + 1 <= retryCall.maxAttempts
       THEN [retryCall EXCEPT !.attempt = @ + 1, !.state = "calling"]
       ELSE [retryCall EXCEPT !.attempt = @ + 1, !.state = "threw",
                              !.thrown = retryCall.lastError]
  /\ UNCHANGED <<conf, run, pc, i, wallet, ledgerVars, siteVars, attempt,
                 affVars, tdVars, abortCause, histPay, ledgerAtStart,
                 histBatch, poll, extraction, ledgerOp, startup,
              fundsCheck, login, selection>>

InitRetry == NotStarted /\ retryCall = NoRetryCall /\ poll = NoPoll
             /\ extraction = NoExtraction
             /\ ledgerOp = NoLedgerOp /\ startup = NoStartup
  /\ fundsCheck = NoFundsCheck /\ login = NoLogin
  /\ selection = NoSelection
NextRetry == Retry_Call \/ Retry_Attempt \/ Retry_Sleep
SpecRetry == InitRetry /\ [][NextRetry]_vars
NextRetryAny == Retry_CallAny \/ Retry_Attempt \/ Retry_Sleep
SpecRetryAny == InitRetry /\ [][NextRetryAny]_vars


\* ============================================================ readiness polls
\* A poll that has started: attempt counts the observations made, errorAt is
\* the first observation during which the page showed an explicit error
\* indicator (0: none so far), error is what the poll recorded for its caller.
StartPoll(kind, cap) ==
  [kind |-> kind,
   cap |-> cap,
   state |-> IF cap = 0 THEN "notReady" ELSE "polling",
   attempt |-> 0,
   errorAt |-> 0,
   observeFailed |-> FALSE,
   error |-> "none"]

\* the loop condition after an iteration that neither returned nor broke out
NextObservation(p, exhausted) ==
  IF p.attempt < p.cap THEN p
  ELSE [p EXCEPT !.state = "notReady",
                 !.error = IF p.error = "none" THEN exhausted ELSE @]

SwallowObservationError_Rethrow == FALSE
\* try { ... observe ... } catch (obsError) { /* log */ } inside the loop
SwallowObservationError == TRUE

\* an observation that rejects
ObserveThrows(p, exhausted) ==
  IF SwallowObservationError
  THEN NextObservation([p EXCEPT !.observeFailed = TRUE], exhausted)
  ELSE [p EXCEPT !.state = "threw"]

PollUnchanged ==
  UNCHANGED <<conf, run, pc, i, wallet, ledgerVars, siteVars, attempt,
              affVars, tdVars, abortCause, histPay, ledgerAtStart,
              histBatch, retryCall, extraction, ledgerOp, startup,
              fundsCheck, login, selection>>

\* -- DariSitePlanAgent.downloadCertificate
DownloadCertificate_Begin ==
  /\ poll.state = "idle"
  /\ poll' = StartPoll("downloadCertificate", MAX_OBSERVATIONS)
  /\ PollUnchanged

DownloadCertificate_Observe ==
  /\ poll.state = "polling" /\ poll.kind = "downloadCertificate"
  /\ LET p == [poll EXCEPT !.attempt = @ + 1]
         exhausted == "Download button did not appear after extended observations"
     IN \E page \in {"processing", "errorIndicator", "downloadClicked",
                     "downloadClickThrows", "errorUrl", "observeThrows"} :
          poll' =
            CASE page = "errorIndicator" ->
                   [p EXCEPT !.errorAt = p.attempt, !.state = "failed",
                             !.error = "Certificate generation failed"]
              [] page = "downloadClicked" -> [p EXCEPT !.state = "downloaded"]
              \* the failed click is caught by the catch of the loop body;
              \* downloadButtonFound is already true, so the loop ends and
              \* nothing is recorded
              [] page = "downloadClickThrows" ->
                   IF SwallowObservationError
                   THEN [p EXCEPT !.state = "ended"]
                   ELSE [p EXCEPT !.state = "threw"]
              [] page = "errorUrl" ->
                   [p EXCEPT !.state = "failed",
                             !.error = "Page navigated to error during download wait; Download button never appeared"]
              [] page = "observeThrows" -> ObserveThrows(p, exhausted)
              [] OTHER -> NextObservation(p, exhausted)
  /\ PollUnchanged

\* -- DariSitePlanAgent.viewAndDownloadApplication: the observation asks for
\* the download button only, whatever else the page shows
ViewAndDownloadApplication_Begin ==
  /\ poll.state = "idle"
  /\ poll' = StartPoll("viewAndDownloadApplication", MAX_ATTEMPTS)
  /\ PollUnchanged

ViewAndDownloadApplication_Observe ==
  /\ poll.state = "polling" /\ poll.kind = "viewAndDownloadApplication"
  /\ LET p == [poll EXCEPT !.attempt = @ + 1]
         exhausted == "Fallback download timeout - button never appeared"
     IN \E page \in {"processing", "errorIndicator", "downloadClicked",
                     "downloadClickThrows", "observeThrows"} :
          poll' =
            CASE page = "errorIndicator" ->
                   NextObservation(
                     [p EXCEPT !.errorAt = IF @ = 0 THEN p.attempt ELSE @],
                     exhausted)
              [] page = "downloadClicked" -> [p EXCEPT !.state = "downloaded"]
              [] page \in {"downloadClickThrows", "observeThrows"} ->
                   ObserveThrows(p, exhausted)
              [] OTHER -> NextObservation(p, exhausted)
  /\ PollUnchanged

\* -- DariSitePlanAgent.intelligentWaitUntilPageReady(expectedElements,
\* maxWaitSeconds = 60): called with 15, 30, 60
IntelligentWait_Begin ==
  /\ poll.state = "idle"
  /\ \E maxWaitSeconds \in {15, 30, 60} :
       poll' = StartPoll("intelligentWaitUntilPageReady", maxWaitSeconds \div 3)
  /\ PollUnchanged

IntelligentWait_Observe ==
  /\ poll.state = "polling" /\ poll.kind = "intelligentWaitUntilPageReady"
  /\ LET p == [poll EXCEPT !.attempt = @ + 1]
     IN \E observation \in {"some", "none", "observeThrows"} :
          poll' =
            CASE observation = "some" -> [p EXCEPT !.state = "ready"]
              [] observation = "observeThrows" -> ObserveThrows(p, "none")
              [] OTHER -> NextObservation(p, "none")
  /\ PollUnchanged

\* -- the download-page wait of DariAffectionPlanAgent.searchAndFilterPlot;
\* waitTimes.downloadPageTimeout is 900000 unless the configuration sets it
DownloadPage_Begin ==
  /\ poll.state = "idle"
  /\ \E downloadPageTimeout \in {4000, 60000, 900000} :
       poll' = StartPoll("downloadPage", downloadPageTimeout \div checkIntervalMs)
  /\ PollUnchanged

DownloadPage_Observe ==
  /\ poll.state = "polling" /\ poll.kind = "downloadPage"
  /\ LET p == [poll EXCEPT !.attempt = @ + 1]
     IN \E contentCheck \in {"downloadContent", "other", "observeThrows"} :
          poll' =
            CASE contentCheck = "downloadContent" -> [p EXCEPT !.state = "ready"]
              [] contentCheck = "observeThrows" -> ObserveThrows(p, "none")
              [] OTHER -> NextObservation(p, "none")
  /\ PollUnchanged

\* -- DariSitePlanAgent.searchAndProcessPlot, after the click on Proceed:
\* while (!certificatePageLoaded) { observe; ...; waitForTimeout(2000) }.
\* The loop has no cap (cap 0 here).  observationAttempts grows without
\* limit and is only used modulo 10, for the progress log; the attempt
\* kept here is that phase, 1..LogEvery.
LogEvery == 10

WaitAfterProceed_Begin ==
  /\ poll.state = "idle"
  /\ poll' = [kind |-> "waitAfterProceed", cap |-> 0, state |-> "polling",
              attempt |-> 1, errorAt |-> 0, observeFailed |-> FALSE,
              error |-> "none"]
  /\ PollUnchanged

\* one pass: an observation that shows payment elements, an application id
\* or a certificate heading ends the wait; an observation that rejects
\* leaves the method through its catch; anything else sleeps and loops
WaitAfterProceed_Observe ==
  /\ poll.state = "polling" /\ poll.kind = "waitAfterProceed"
  /\ \E seen \in {"loaded", "nothing", "observeThrows"} :
       poll' =
         CASE seen = "loaded" -> [poll EXCEPT !.state = "ready"]
           [] seen = "observeThrows" -> [poll EXCEPT !.state = "threw"]
           [] OTHER ->
                [poll EXCEPT !.attempt = (@ % LogEvery) + 1]
  /\ PollUnchanged

InitPoll == NotStarted /\ retryCall = NoRetryCall /\ poll = NoPoll
            /\ extraction = NoExtraction
            /\ ledgerOp = NoLedgerOp /\ startup = NoStartup
  /\ fundsCheck = NoFundsCheck /\ login = NoLogin
  /\ selection = NoSelection
NextPoll ==
  \/ DownloadCertificate_Begin
  \/ DownloadCertificate_Observe
  \/ ViewAndDownloadApplication_Begin
  \/ ViewAndDownloadApplication_Observe
  \/ IntelligentWait_Begin
  \/ IntelligentWait_Observe
  \/ DownloadPage_Begin
  \/ DownloadPage_Observe
SpecPoll == InitPoll /\ [][NextPoll]_vars

\* every wait of the plot processor, with the loops being run for as long as
\* they have a next pass
NextPlotWaits == NextPoll \/ WaitAfterProceed_Begin \/ WaitAfterProceed_Observe
SpecPlotWaits == InitPoll /\ [][NextPlotWaits]_vars /\ WF_vars(NextPlotWaits)


\* ======================================== extraction of the application id
\* extractCalls: calls of page.extract; emptyExtracts: those that returned an
\* empty string; textReads: times the raw page text was fetched for the
\* regular expressions; regexRuns: times the patterns ran over that text.
StartExtraction(kind) ==
  [kind |-> kind, state |-> "running", attempt |-> 0, extractCalls |-> 0,
   emptyExtracts |-> 0, textReads |-> 0, regexRuns |-> 0]

\* what page.extract can give: an identifier, an empty string, a rejection
ExtractOutcomes == {"id", "empty", "throws"}
\* what page.textContent('body') can give: text the patterns match, text
\* they do not match, null, a rejection
TextOutcomes == {"match", "noMatch", "null", "throws"}

ExtractionUnchanged ==
  UNCHANGED <<conf, run, pc, i, wallet, ledgerVars, siteVars, attempt,
              affVars, tdVars, abortCause, histPay, ledgerAtStart,
              histBatch, retryCall, poll, ledgerOp, startup,
              fundsCheck, login, selection>>

\* the regular expressions over the page text, once
RegexOverText(e, text) ==
  LET read == [e EXCEPT !.textReads = @ + 1]
      ran == [read EXCEPT !.regexRuns = @ + 1]
  IN CASE text = "match" -> [ran EXCEPT !.state = "found"]
       [] text = "noMatch" -> ran
       [] OTHER -> read

\* -- DariSitePlanAgent.extractApplicationId: extract, then the patterns,
\* all inside one try; every rejection ends in return null
ExtractApplicationId ==
  /\ extraction.state = "idle"
  /\ \E ai \in ExtractOutcomes, text \in TextOutcomes :
       LET e == [StartExtraction("extractApplicationId")
                   EXCEPT !.attempt = 1, !.extractCalls = 1,
                          !.emptyExtracts = IF ai = "empty" THEN 1 ELSE 0]
       IN extraction' =
            CASE ai = "id" -> [e EXCEPT !.state = "found"]
              [] ai = "throws" -> [e EXCEPT !.state = "failed"]
              [] OTHER ->
                   LET f == RegexOverText(e, text)
                   IN IF f.state = "found" THEN f
                      ELSE [f EXCEPT !.state = "failed"]
  /\ ExtractionUnchanged

\* -- DariAffectionPlanAgent.searchAndFilterPlot: the identifier of the page
\* analysis, else one match over the page text, else 'Application ID not
\* found'; a rejection of textContent leaves the function
SearchAndFilterPlot_ExtractId ==
  /\ extraction.state = "idle"
  /\ \E ai \in ExtractOutcomes \ {"throws"}, text \in TextOutcomes :
       LET e == [StartExtraction("searchAndFilterPlot")
                   EXCEPT !.attempt = 1, !.extractCalls = 1,
                          !.emptyExtracts = IF ai = "empty" THEN 1 ELSE 0]
       IN extraction' =
            CASE ai = "id" -> [e EXCEPT !.state = "found"]
              [] text = "throws" ->
                   [e EXCEPT !.textReads = 1, !.state = "threw"]
              [] OTHER ->
                   LET f == RegexOverText(e, text)
                   IN IF f.state = "found" THEN f
                      ELSE [f EXCEPT !.state = "failed"]
  /\ ExtractionUnchanged

\* -- DariTitleDeedAgent.waitForAndExtractApplicationId: up to MAX_ATTEMPTS
\* passes, each one the patterns over the page text first and page.extract
\* second, 3 s apart; return null after the last
WaitForAndExtractApplicationId_Begin ==
  /\ extraction.state = "idle"
  /\ extraction' = StartExtraction("waitForAndExtractApplicationId")
  /\ ExtractionUnchanged

WaitForAndExtractApplicationId_Attempt ==
  /\ extraction.state = "running"
  /\ extraction.kind = "waitForAndExtractApplicationId"
  /\ \E text \in TextOutcomes, ai \in ExtractOutcomes :
       LET e == [extraction EXCEPT !.attempt = @ + 1]
           f == IF text = "throws" THEN [e EXCEPT !.textReads = @ + 1]
                ELSE RegexOverText(e, text)
           g == IF text = "throws" \/ f.state = "found" THEN f
                ELSE [f EXCEPT
                        !.extractCalls = @ + 1,
                        !.emptyExtracts = IF ai = "empty" THEN @ + 1 ELSE @,
                        !.state = IF ai = "id" THEN "found" ELSE @]
       IN extraction' =
            IF g.state = "running" /\ g.attempt = MAX_EXTRACT_ATTEMPTS
            THEN [g EXCEPT !.state = "failed"]
            ELSE g
  /\ ExtractionUnchanged

InitExtract == NotStarted /\ retryCall = NoRetryCall /\ poll = NoPoll
               /\ extraction = NoExtraction
               /\ ledgerOp = NoLedgerOp /\ startup = NoStartup
  /\ fundsCheck = NoFundsCheck /\ login = NoLogin
  /\ selection = NoSelection
NextExtract ==
  \/ ExtractApplicationId
  \/ SearchAndFilterPlot_ExtractId
  \/ WaitForAndExtractApplicationId_Begin
  \/ WaitForAndExtractApplicationId_Attempt
SpecExtract == InitExtract /\ [][NextExtract]_vars


\* ================================================= the application history
\* The Map and its file with the timestamps kept, driven call by call.
\* An element of the JSON array in the file; null is the element with
\* plotNumber 0.
NullItem ==
  [plotNumber |-> 0, applicationId |-> NoApplicationId, paymentDate |-> 0,
   downloaded |-> FALSE, lastChecked |-> 0]
ValidItems ==
  {[plotNumber |-> p, applicationId |-> id, paymentDate |-> 1,
    downloaded |-> d, lastChecked |-> 1] :
     p \in PlotSet, id \in AppIds, d \in BOOLEAN}
FileArrays ==
  UNION {[1..n -> ValidItems \cup {NullItem}] : n \in 0..MaxFileItems}
\* what data/dari-applications-history.json can hold when it is read: no
\* file, text that JSON.parse rejects, JSON that is not an array, an array
FileContents ==
  {[kind |-> k, items |-> <<>>] : k \in {"missing", "unparseable", "notArray"}}
  \cup {[kind |-> "array", items |-> a] : a \in FileArrays}
\* a file is corrupt when it exists and is not an array of applications
IsCorrupt(file) ==
  \/ file.kind \in {"unparseable", "notArray"}
  \/ file.kind = "array" /\ \E k \in 1..Len(file.items) : file.items[k] = NullItem

\* this.persistedApplications = new Map(): the absent entry is NullItem
EmptyMap == [p \in PlotSet |-> NullItem]

\* applications.forEach(app => this.persistedApplications.set(app.plotNumber, app)):
\* the elements are set in order; reading plotNumber of null throws
RECURSIVE SetEach(_, _, _)
SetEach(map, items, k) ==
  IF k > Len(items) THEN [map |-> map, threw |-> FALSE]
  ELSE IF items[k] = NullItem THEN [map |-> map, threw |-> TRUE]
  ELSE SetEach([map EXCEPT ![items[k].plotNumber] = items[k]], items, k + 1)

\* Array.from(this.persistedApplications.values()) as written by JSON.stringify
RECURSIVE ValuesFrom(_, _)
ValuesFrom(map, p) ==
  IF p > MaxPlots THEN <<>>
  ELSE IF map[p] = NullItem THEN ValuesFrom(map, p + 1)
  ELSE <<map[p]>> \o ValuesFrom(map, p + 1)

\* savePersistedApplications with the timestamps
SaveMap(op, writeOk) ==
  IF writeOk
  THEN [op EXCEPT !.file = [kind |-> "array", items |-> ValuesFrom(op.map, 1)],
                  !.log = Append(@, "saved")]
  ELSE [op EXCEPT !.log = Append(@, "errorSaving")]

LedgerUnchanged ==
  UNCHANGED <<conf, run, pc, i, wallet, ledgerVars, siteVars, attempt,
              affVars, tdVars, abortCause, histPay, ledgerAtStart,
              histBatch, retryCall, poll, extraction, startup,
              fundsCheck, login, selection>>

\* loadPersistedApplications on a new agent
LoadPersistedApplications ==
  /\ ledgerOp.state = "idle"
  /\ \E file \in FileContents :
       LET set == SetEach(EmptyMap, file.items, 1)
           op == [state |-> "ready", last |-> "load", file |-> file,
                  read |-> file, before |-> EmptyMap, plot |-> 0, now |-> 2]
       IN ledgerOp' =
            CASE file.kind = "missing" ->
                   op @@ [map |-> EmptyMap, log |-> <<"startingFresh">>]
              [] file.kind \in {"unparseable", "notArray"} ->
                   op @@ [map |-> EmptyMap, log |-> <<"errorLoading">>]
              [] OTHER ->
                   op @@ [map |-> set.map,
                          log |-> IF set.threw THEN <<"errorLoading">>
                                  ELSE <<"loaded">>]
  /\ LedgerUnchanged

\* addPersistedApplication(plotNumber, applicationId, downloaded)
AddPersistedApplication ==
  /\ ledgerOp.state = "ready"
  /\ ledgerOp.now < MaxClock
  /\ \E p \in PlotSet, id \in AppIds, d \in BOOLEAN, writeOk \in BOOLEAN :
       ledgerOp' =
         SaveMap([ledgerOp EXCEPT
                    !.last = "add", !.plot = p, !.before = ledgerOp.map,
                    !.log = <<>>, !.now = @ + 1,
                    !.map[p] = [plotNumber |-> p, applicationId |-> id,
                                paymentDate |-> ledgerOp.now,
                                downloaded |-> d,
                                lastChecked |-> ledgerOp.now]],
                 writeOk)
  /\ LedgerUnchanged

\* updatePersistedApplicationDownloadStatus(plotNumber, downloaded)
UpdatePersistedApplicationDownloadStatus ==
  /\ ledgerOp.state = "ready"
  /\ ledgerOp.now < MaxClock
  /\ \E p \in PlotSet, d \in BOOLEAN, writeOk \in BOOLEAN :
       LET op == [ledgerOp EXCEPT !.last = "update", !.plot = p,
                                  !.before = ledgerOp.map, !.log = <<>>,
                                  !.now = @ + 1]
       IN ledgerOp' =
            IF ledgerOp.map[p] # NullItem
            THEN SaveMap([op EXCEPT !.map[p].downloaded = d,
                                    !.map[p].lastChecked = ledgerOp.now],
                         writeOk)
            ELSE op
  /\ LedgerUnchanged

InitLedger == NotStarted /\ retryCall = NoRetryCall /\ poll = NoPoll
              /\ extraction = NoExtraction
              /\ ledgerOp = NoLedgerOp /\ startup = NoStartup
  /\ fundsCheck = NoFundsCheck /\ login = NoLogin
  /\ selection = NoSelection
NextLedger ==
  \/ LoadPersistedApplications
  \/ AddPersistedApplication
  \/ UpdatePersistedApplicationDownloadStatus
SpecLedger == InitLedger /\ [][NextLedger]_vars


\* ===================================== executeWorkflow up to the batch loop
\* The spreadsheet as loadPlotNumbers sees it: the file may be absent or
\* unreadable; data is the list of rows (the first is the header) reduced to
\* the cell in column plotColumnIndex: absent, blank, or a plot number.
Cells == {"absent", "blank", "plot"}
Sheets ==
  {[exists |-> FALSE, readable |-> FALSE, data |-> <<>>],
   [exists |-> TRUE, readable |-> FALSE, data |-> <<>>]}
  \cup {[exists |-> TRUE, readable |-> TRUE, data |-> d] :
          d \in UNION {[1..n -> Cells] : n \in 0..MaxRows}}

\* the loop over data[1..] of loadPlotNumbers: the rows that give a plot
PlotRows(data) == {k \in 2..Len(data) : data[k] = "plot"}

\* loadPlotNumbers / ExcelReader.readPlotNumbers: the error it throws, or
\* "none" when this.plots is loaded
LoadPlotNumbersError(sheet) ==
  CASE ~sheet.exists -> "Excel file not found"
    [] ~sheet.readable -> "Failed to read Excel file"
    [] Len(sheet.data) = 0 -> "Excel file is empty"
    [] PlotRows(sheet.data) = {} -> "No plot numbers found"
    [] OTHER -> "none"

\* the order of the steps in executeWorkflow of each agent
StartupSteps(a) ==
  CASE a = "SitePlan" ->
         <<"initialize", "loadPlotNumbers", "login", "selectService">>
    [] a = "TitleDeed" ->
         <<"initialize", "loadPlotNumbers", "login", "selectService">>
    [] OTHER ->
         <<"initialize", "login", "selectService", "loadPlotNumbers">>

StartupUnchanged ==
  UNCHANGED <<conf, run, pc, i, wallet, ledgerVars, siteVars, attempt,
              affVars, tdVars, abortCause, histPay, ledgerAtStart,
              histBatch, retryCall, poll, extraction, ledgerOp,
              fundsCheck, login, selection>>

AtStep(name) ==
  /\ startup.state = "running"
  /\ StartupSteps(startup.agent)[startup.step] = name

\* the step is done: on to the next one, or to the batch loop
StepDone(st) ==
  IF st.step = Len(StartupSteps(st.agent))
  THEN [st EXCEPT !.state = "batch"]
  ELSE [st EXCEPT !.step = @ + 1]

\* new Agent().executeWorkflow() with some spreadsheet in place
Startup_ExecuteWorkflow ==
  /\ startup.state = "idle"
  /\ \E a \in Agents \ {"AffectionPlanCopy"}, sheet \in Sheets :
       startup' = [state |-> "running", agent |-> a, sheet |-> sheet,
                   step |-> 1, browserLaunched |-> FALSE,
                   navigated |-> FALSE, loggedIn |-> FALSE,
                   plotsLoaded |-> 0, error |-> "none"]
  /\ StartupUnchanged

\* initialize(): new Stagehand(...), stagehand.init() launches the browser
Startup_Initialize ==
  /\ AtStep("initialize")
  /\ \E launched \in BOOLEAN :
       startup' =
         IF launched THEN StepDone([startup EXCEPT !.browserLaunched = TRUE])
         ELSE [startup EXCEPT !.state = "failed", !.error = "initialize"]
  /\ StartupUnchanged

\* loadPlotNumbers()
Startup_LoadPlotNumbers ==
  /\ AtStep("loadPlotNumbers")
  /\ LET err == LoadPlotNumbersError(startup.sheet)
     IN startup' =
          IF err = "none"
          THEN StepDone([startup EXCEPT
                           !.plotsLoaded = Cardinality(PlotRows(startup.sheet.data))])
          ELSE [startup EXCEPT !.state = "failed", !.error = err]
  /\ StartupUnchanged

\* navigation to the portal and the UAE Pass login
Startup_Login ==
  /\ AtStep("login")
  /\ \E approved \in BOOLEAN :
       startup' =
         IF approved
         THEN StepDone([startup EXCEPT !.navigated = TRUE, !.loggedIn = TRUE])
         ELSE [startup EXCEPT !.navigated = TRUE, !.state = "failed",
                              !.error = "login"]
  /\ StartupUnchanged

\* services menu and the service page
Startup_SelectService ==
  /\ AtStep("selectService")
  /\ \E found \in BOOLEAN :
       startup' =
         IF found THEN StepDone(startup)
         ELSE [startup EXCEPT !.state = "failed", !.error = "service"]
  /\ StartupUnchanged

InitStartup == NotStarted /\ retryCall = NoRetryCall /\ poll = NoPoll
               /\ extraction = NoExtraction
               /\ ledgerOp = NoLedgerOp /\ startup = NoStartup
  /\ fundsCheck = NoFundsCheck /\ login = NoLogin
  /\ selection = NoSelection
NextStartup ==
  \/ Startup_ExecuteWorkflow
  \/ Startup_Initialize
  \/ Startup_LoadPlotNumbers
  \/ Startup_Login
  \/ Startup_SelectService
SpecStartup == InitStartup /\ [][NextStartup]_vars

\* ============================================ parsing balance and fee
\* What the page shows for an amount, as a short string over a small
\* alphabet: two digits, the decimal point and one other character
AmountChars == {"1", "2", ".", "x"}
MaxAmountLen == 2
AmountTexts == UNION {[1..n -> AmountChars] : n \in 0..MaxAmountLen}
IsDigit(c) == c \in {"1", "2"}
DigitValue(c) == IF c = "1" THEN 1 ELSE 2
HasDigit(text) == \E k \in 1..Len(text) : IsDigit(text[k])

\* a JavaScript number in hundredths: NaN, or <<v>>
NaN == << >>

\* the longest prefix of s made of digits
LeadDigits(s) ==
  LET n == CHOOSE k \in 0..Len(s) :
             /\ \A m \in 1..k : IsDigit(s[m])
             /\ (k = Len(s) \/ ~IsDigit(s[k + 1]))
  IN SubSeq(s, 1, n)

RECURSIVE DigitsValue(_)
DigitsValue(s) ==
  IF s = << >> THEN 0
  ELSE 10 * DigitsValue(SubSeq(s, 1, Len(s) - 1)) + DigitValue(s[Len(s)])

\* parseFloat(s) of a string of digits and points: the longest prefix that
\* is a decimal literal, NaN when that prefix holds no digit
ParseFloat(s) ==
  LET ip == LeadDigits(s)
      rest == SubSeq(s, Len(ip) + 1, Len(s))
      fp == IF rest # << >> /\ rest[1] = "." THEN LeadDigits(Tail(rest)) ELSE << >>
  IN IF ip = << >> /\ fp = << >> THEN NaN
     ELSE << 100 * DigitsValue(ip)
             + (IF fp = << >> THEN 0
                ELSE IF Len(fp) = 1 THEN 10 * DigitValue(fp[1])
                ELSE 10 * DigitValue(fp[1]) + DigitValue(fp[2])) >>

\* str.replace(/[^\d.]/g, '')
StripNonNumeric(text) == SelectSeq(text, LAMBDA c : c \in {"1", "2", "."})

\* isNaN(x)
IsNaN_Never(x) == FALSE
IsNaN(x) == x = NaN

\* a < b and a >= b of JavaScript numbers: false when either side is NaN
NumLess(a, b) == a # NaN /\ b # NaN /\ a[1] < b[1]
NumGreaterEq(a, b) == a # NaN /\ b # NaN /\ a[1] >= b[1]
NumTimes(a, n) == IF a = NaN THEN NaN ELSE << TotalRequired(a[1], n) >>

\* extractWalletBalance / extractPaymentAmount of the Site Plan agent: the
\* first match of \d+(?:\.\d+)? in the extracted text, null (<< >>) when
\* there is none
NumberPattern(text) ==
  IF ~HasDigit(text) THEN << >>
  ELSE LET first == CHOOSE k \in 1..Len(text) :
                      IsDigit(text[k]) /\ \A m \in 1..(k - 1) : ~IsDigit(text[m])
           from == SubSeq(text, first, Len(text))
           ip == LeadDigits(from)
           rest == SubSeq(from, Len(ip) + 1, Len(from))
           fp == IF rest # << >> /\ rest[1] = "." THEN LeadDigits(Tail(rest)) ELSE << >>
       IN << IF fp = << >> THEN ip ELSE ip \o <<".">> \o fp >>

\* Site Plan: both strings must be there, then parseFloat and balance >= amount
SitePlanFundsOutcome(balanceText, amountText) ==
  LET walletBalance == NumberPattern(balanceText)
      paymentAmount == NumberPattern(amountText)
  IN IF walletBalance = << >> \/ paymentAmount = << >>
     THEN "Error"
     ELSE IF NumGreaterEq(ParseFloat(StripNonNumeric(walletBalance[1])),
                          ParseFloat(StripNonNumeric(paymentAmount[1])))
          THEN "Proceed" ELSE "InsufficientFunds"

\* Affection Plan: strip, parseFloat, isNaN check, then the batch check on
\* the first plot and the single-plot check on a later one
AffectionFundsOutcome(balanceText, amountText, isFirstPlot, totalPlots) ==
  LET balance == ParseFloat(StripNonNumeric(balanceText))
      fee == ParseFloat(StripNonNumeric(amountText))
  IN IF IsNaN(balance) \/ IsNaN(fee) THEN "Error"
     ELSE IF isFirstPlot
          THEN IF NumLess(balance, NumTimes(fee, totalPlots))
               THEN "BatchInsufficient" ELSE "Proceed"
          ELSE IF NumLess(balance, fee) THEN "InsufficientFunds" ELSE "Proceed"

FundsUnchanged ==
  UNCHANGED <<conf, run, pc, i, wallet, ledgerVars, siteVars, attempt,
              affVars, tdVars, abortCause, histPay, ledgerAtStart,
              histBatch, retryCall, poll, extraction, ledgerOp, startup, login,
              selection>>

\* the plot reaches the payment page, which shows a balance and a fee
ValidateFunds_Begin ==
  /\ fundsCheck.state = "idle"
  /\ \E a \in {"SitePlan", "AffectionPlan"}, b \in AmountTexts, f \in AmountTexts,
        first \in BOOLEAN, n \in 1..MaxPlots :
       /\ (a = "SitePlan" => first /\ n = 1)
       /\ fundsCheck' = [state |-> "reading", agent |-> a, balanceText |-> b,
                         amountText |-> f, isFirstPlot |-> first,
                         totalPlots |-> n, outcome |-> "none", payInvoked |-> FALSE]
  /\ FundsUnchanged

\* the validation decides; only "Proceed" leads on to the pay step
ValidateFunds_Decide ==
  /\ fundsCheck.state = "reading"
  /\ LET c == fundsCheck
         out == IF c.agent = "SitePlan"
                THEN SitePlanFundsOutcome(c.balanceText, c.amountText)
                ELSE AffectionFundsOutcome(c.balanceText, c.amountText,
                                           c.isFirstPlot, c.totalPlots)
     IN fundsCheck' = [c EXCEPT !.state = "decided", !.outcome = out,
                                !.payInvoked = (out = "Proceed")]
  /\ FundsUnchanged

InitFunds == NotStarted /\ retryCall = NoRetryCall /\ poll = NoPoll
             /\ extraction = NoExtraction /\ ledgerOp = NoLedgerOp
             /\ startup = NoStartup /\ fundsCheck = NoFundsCheck /\ login = NoLogin
  /\ selection = NoSelection
NextFunds == ValidateFunds_Begin \/ ValidateFunds_Decide
SpecFunds == InitFunds /\ [][NextFunds]_vars

\* ===================================== selecting the DARI wallet method
\* the radio button that is checked in the "Pay with" section of the page
PaymentOptions == {"none", "card", "wallet"}

\* ensureDariWalletSelected: four phrasings of the select action
WalletActions == 4
\* the retry() around the select action of the Affection Plan agent
SelectMaxAttempts == 3

\* getSelectedPaymentLabel: the label of the checked radio button, null when
\* nothing is checked or the evaluation throws
GetSelectedPaymentLabel(checked, evaluateOk) ==
  IF evaluateOk THEN checked ELSE "none"

SelectionUnchanged ==
  UNCHANGED <<conf, run, pc, i, wallet, ledgerVars, siteVars, attempt,
              affVars, tdVars, abortCause, histPay, ledgerAtStart,
              histBatch, retryCall, poll, extraction, ledgerOp, startup,
              fundsCheck, login>>

SelectionFailed(err) == [selection EXCEPT !.state = "failed", !.error = err]

\* the payment page of a plot is shown with some option checked, and the
\* agent observes the payment options
SelectWallet_Observe ==
  /\ selection.state = "idle"
  /\ \E a \in {"SitePlan", "AffectionPlan"}, shown \in PaymentOptions,
        seen \in {"throw", "optionMissing", "notInteractive", "found"} :
       LET s0 == [state |-> "act", agent |-> a, shown |-> shown, checked |-> shown,
                  tries |-> 1,
                  confirmed |-> FALSE, payInvoked |-> FALSE, error |-> "none"]
       IN /\ (a = "AffectionPlan" => seen \in {"throw", "found"})
          /\ selection' =
               CASE seen = "found" -> s0
                 [] seen = "throw" -> [s0 EXCEPT !.state = "failed", !.error = "Error"]
                 [] seen = "optionMissing" ->
                      [s0 EXCEPT !.state = "failed",
                                 !.error = "DARI wallet option not found on page"]
                 [] OTHER ->
                      [s0 EXCEPT !.state = "failed",
                                 !.error = "DARI wallet element found but not interactive"]
  /\ SelectionUnchanged

\* Site Plan: the first select action, inside retry(), its failure swallowed;
\* what the action checks on the page is up to the page
SitePlan_FirstSelect ==
  /\ selection.state = "act" /\ selection.agent = "SitePlan"
  /\ \E now \in PaymentOptions :
       selection' = [selection EXCEPT !.state = "ensure", !.checked = now]
  /\ SelectionUnchanged

\* ensureDariWalletSelected: one phrasing, then the DOM-level check; after
\* the four phrasings one more try whose check is skipped if the action throws
SitePlan_EnsureDariWalletSelected ==
  /\ selection.state = "ensure"
  /\ \E now \in PaymentOptions, actOk \in BOOLEAN, evaluateOk \in BOOLEAN :
       LET extra == selection.tries > WalletActions
           label == GetSelectedPaymentLabel(now, evaluateOk)
           after == [selection EXCEPT !.checked = now]
       IN /\ (~actOk /\ extra => evaluateOk)
          /\ selection' =
               IF label = "wallet" /\ (actOk \/ ~extra)
               THEN [after EXCEPT !.state = "selected", !.confirmed = TRUE]
               ELSE IF extra
                    THEN [after EXCEPT !.state = "failed",
                            !.error = "Failed to select DARI wallet payment option"]
                    ELSE [after EXCEPT !.tries = @ + 1]
  /\ SelectionUnchanged

\* Affection Plan: the select action inside retry(); an attempt that does
\* not throw ends the selection, the checked option is not read back
Affection_SelectInRetry ==
  /\ selection.state = "act" /\ selection.agent = "AffectionPlan"
  /\ \E now \in PaymentOptions, actOk \in BOOLEAN :
       selection' =
         IF actOk THEN [selection EXCEPT !.state = "selected", !.checked = now]
         ELSE IF selection.tries = SelectMaxAttempts
              THEN [selection EXCEPT !.state = "failed", !.checked = now,
                                     !.error = "Error"]
              ELSE [selection EXCEPT !.tries = @ + 1, !.checked = now]
  /\ SelectionUnchanged

\* the plot goes on to the funds validation and the pay step
SelectWallet_GoOnToPay ==
  /\ selection.state = "selected"
  /\ selection' = [selection EXCEPT !.state = "paying", !.payInvoked = TRUE]
  /\ SelectionUnchanged

InitSelect == NotStarted /\ retryCall = NoRetryCall /\ poll = NoPoll
              /\ extraction = NoExtraction /\ ledgerOp = NoLedgerOp
              /\ startup = NoStartup /\ fundsCheck = NoFundsCheck
              /\ login = NoLogin /\ selection = NoSelection
NextSelect ==
  \/ SelectWallet_Observe
  \/ SitePlan_FirstSelect
  \/ SitePlan_EnsureDariWalletSelected
  \/ Affection_SelectInRetry
  \/ SelectWallet_GoOnToPay
SpecSelect == InitSelect /\ [][NextSelect]_vars

\* ============================================ waiting for the login
\* Site Plan and Title Deed: for (attempt = 1; attempt <= MAX_WAIT_ATTEMPTS; ...)
MAX_WAIT_ATTEMPTS == 60
\* Affection Plan: while (Date.now() - startTime < uaePassTimeout), one
\* check every 3 seconds
uaePassTimeout == 180000
LoginCheckMs == 3000

\* the test that ends the wait: the URL is off the authentication pages and
\* the observation of the page found login indicators
LoginDetected_UrlOnly(urlLeft, indicators) == urlLeft
LoginDetected(urlLeft, indicators) == urlLeft /\ indicators

\* whether another check follows the one that just failed
LoginWaitOver(l) ==
  IF l.agent = "AffectionPlan" THEN ~(l.elapsed < uaePassTimeout)
  ELSE l.attempt = MAX_WAIT_ATTEMPTS

LoginUnchanged ==
  UNCHANGED <<conf, run, pc, i, wallet, ledgerVars, siteVars, attempt,
              affVars, tdVars, abortCause, histPay, ledgerAtStart,
              histBatch, retryCall, poll, extraction, ledgerOp, startup,
              fundsCheck, selection>>

\* the login was submitted and the agent starts waiting for the approval
WaitForUAEPassApproval_Begin ==
  /\ login.state = "idle"
  /\ \E a \in {"SitePlan", "AffectionPlan", "TitleDeed"} :
       login' = [state |-> "waiting", agent |-> a, attempt |-> 0, elapsed |-> 0,
                 urlLeft |-> FALSE, indicators |-> FALSE, error |-> "none"]
  /\ LoginUnchanged

\* one check: sleep, read the URL, and only when it is off the
\* authentication pages observe the page for login indicators.  The
\* observation of the Site Plan agent is a readiness poll that swallows its
\* errors; in the other two agents an error of the observation (or, in
\* Title Deed, of waitForLoadState) leaves the wait as an exception.
WaitForUAEPassApproval_Check ==
  /\ login.state = "waiting"
  /\ \E url \in {"auth", "portal"}, seen \in {"indicators", "nothing", "throws"} :
       LET urlLeft == url = "portal"
           observed == urlLeft /\ seen = "indicators"
           l == [login EXCEPT !.attempt = @ + 1, !.elapsed = @ + LoginCheckMs,
                              !.urlLeft = urlLeft, !.indicators = observed]
       IN /\ (~urlLeft => seen = "nothing")
          /\ (login.agent = "SitePlan" => seen # "throws")
          /\ login' =
               IF seen = "throws"
               THEN [l EXCEPT !.state = "failed", !.error = "Error"]
               ELSE IF LoginDetected(urlLeft, observed)
                    THEN [l EXCEPT !.state = "loggedIn"]
                    ELSE IF LoginWaitOver(l)
                         THEN [l EXCEPT !.state = "failed", !.error = "timeout"]
                         ELSE l
  /\ LoginUnchanged

InitLogin == NotStarted /\ retryCall = NoRetryCall /\ poll = NoPoll
             /\ extraction = NoExtraction /\ ledgerOp = NoLedgerOp
             /\ startup = NoStartup /\ fundsCheck = NoFundsCheck
             /\ login = NoLogin /\ selection = NoSelection
NextLogin == WaitForUAEPassApproval_Begin \/ WaitForUAEPassApproval_Check
SpecLogin == InitLogin /\ [][NextLogin]_vars

\* ===================================================================== claims
\* positions inside searchAndFilterPlot
AffectionSteps ==
  {"affSearch", "affExtract", "affWallet", "affFunds", "affPay", "affPayClick",
   "affAwait"}
\* the history file holds an entry for plot p
Durable(p) == storage.exists /\ HasEntry(storage.entries, p)

\* C1: for every plot, over all runs (crashes and restarts included), at most
\* one payment reaches the Paid state.
C1_AtMostOnePaid == \A p \in PlotSet : paidCount[p] <= 1

\* C2: a plot whose ledger entry existed when its processing started in this
\* run never has the pay action invoked for it in this run.
C2_NoPayWithLedgerEntry == \A p \in PlotSet : ledgerAtStart[p] => ~runPay[p]

\* C3: when the balance observed by the batch is below N x F, no pay action
\* is invoked for any plot in that run (stated for the Affection Plan agent).
C3_NoPayWhenBatchShort ==
  (agent = "AffectionPlan" /\ firstBalance # <<>>
     /\ firstBalance[1] < Len(plots) * amount)
  => \A p \in PlotSet : ~runPay[p]

\* C4: once the batch-wide funds check has failed on a plot, no step of any
\* other plot is started in that run.
C4_BatchHaltsOnFailedCheck ==
  \A k \in 1..Len(results) :
    results[k].error = "BatchInsufficient"
    => ~(pc \in AffectionSteps /\ CurrentPlot # results[k].plotNumber)

\* C5: whenever the pay action is about to be invoked for a plot, the ledger
\* entry of that plot is already in durable storage.
C5_LedgerWrittenBeforePay ==
  (agent = "SitePlan" /\ pc = "payClick") => Durable(CurrentPlot)

\* C6: recording a payment for a plot that already has a ledger entry does
\* not replace the entry's request identifier.
C6_EntryNeverReplaced ==
  [][(pc = "extractId" /\ Durable(CurrentPlot))
       => storage'.entries[CurrentPlot].applicationId
            = storage.entries[CurrentPlot].applicationId]_vars

\* C7: once recordPayment has returned for a plot, the entry with the
\* extracted identifier is in durable storage.
C7_WriteThrough ==
  (agent = "SitePlan" /\ pc = "selectWallet" /\ record.applicationId # NoApplicationId)
  => (Durable(CurrentPlot)
        /\ storage.entries[CurrentPlot].applicationId = record.applicationId)

\* C8: an entry that is in durable storage stays there with the same request
\* identifier through every ledger mutation of the run.
C8_EntriesSurviveMutations ==
  [][\A p \in PlotSet :
       Durable(p) => (storage'.exists /\ HasEntry(storage'.entries, p)
                        /\ storage'.entries[p].applicationId
                             = storage.entries[p].applicationId)]_vars

\* C9: a batch that ended with plots still unprocessed ended because of the
\* batch-wide insufficient-funds abort or an authentication failure.
C9_OnlyFundsOrAuthTerminate ==
  (pc = "aborted" /\ (i < Len(plots) \/ abortCause = "auth"))
  => abortCause \in {"auth", "batchFunds"}

\* C10: a plot that observes a balance below its fee after the batch-wide
\* check passed is recorded as InsufficientFunds, has no pay action, and the
\* batch is not aborted.
C10_LaterShortfallIsolated ==
  \A p \in PlotSet :
    (agent = "AffectionPlan" /\ lowAfterPass[p])
    => /\ ~runPay[p]
       /\ abortCause # "batchFunds"
       /\ \E k \in 1..Len(results) :
            results[k].plotNumber = p /\ results[k].error = "InsufficientFunds"

\* C11: the batch-wide funds check is computed at most once in a run, and
\* only while the first plot of the list is being processed.
C11_BatchCheckOnceOnFirstPlot ==
  [][(agent = "AffectionPlan" /\ batchChecks' > batchChecks)
       => (i = 1 /\ batchChecks = 0)]_vars

\* C12: when the batch is aborted for insufficient funds, the shortfall
\* reported equals N x F - B for the N plots of the list, the fee F and the
\* balance B read by the check.
C12_ShortfallExact ==
  abortCause = "batchFunds" => shortage = Len(plots) * amount - wallet

C12_Witness ==
  /\ abortCause = "batchFunds"
  /\ Len(plots) = 2
  /\ wallet = 1
  /\ shortage = 1

\* C13: at the end of an Affection Plan run, either a payment was made for
\* every plot of the list or no pay action was invoked for any plot.
C13_NoPartialPayments ==
  (agent = "AffectionPlan" /\ pc = "done" /\ \E p \in PlotSet : runPay[p])
  => \A n \in 1..Len(plots) : charged[plots[n]]

\* C14: with payment.enabled false the Site Plan agent never reaches the
\* Pay Now button: no pay step is entered and no pay click is invoked.
C14_NoPayWhenDisabled ==
  (agent = "SitePlan" /\ ~paymentEnabled)
  => /\ pc \notin {"pay", "payClick", "verifyPayment", "download"}
     /\ \A p \in PlotSet : ~runPay[p] /\ paidCount[p] = 0

C14_Witness ==
  /\ agent = "SitePlan"
  /\ ~paymentEnabled
  /\ pc = "plotDone"
  /\ record.walletBalanceSufficient
  /\ wallet >= amount

\* C15: a pay click is never issued for a plot for which a pay click was
\* already issued in the same pass (the click is not retried).
C15_PayClickNotRetried ==
  pc \in {"payClick", "affPayClick"} => attempt = 1

\* C16: every wait of retry() follows a failed attempt k < maxAttempts and
\* lasts delayMs * backoffMultiplier^(k-1): the first wait is delayMs, each
\* later one is the previous one times the multiplier, and attempt k+1 starts
\* only after k waits.
C16_BackoffDelay ==
  retryCall.state # "idle" =>
    LET d == retryCall.delays IN
    /\ \A k \in 1..Len(d) :
         /\ k < retryCall.maxAttempts
         /\ d[k] = IF k = 1 THEN retryCall.delayMs
                   ELSE d[k - 1] * retryCall.backoffMultiplier
    /\ retryCall.state = "calling" => Len(d) = retryCall.attempt - 1
    /\ retryCall.state = "sleeping" => Len(d) = retryCall.attempt
C16_Witness ==
  /\ retryCall.state = "calling"
  /\ retryCall.attempt = 3
  /\ retryCall.delays = <<2000, 4000>>

\* C17: retry() returns at the first attempt that succeeds and calls fn no
\* more; it throws exactly when maxAttempts attempts have failed, and what it
\* throws is an Error carrying the last attempt's failure.
C17_FirstSuccessOrLastError ==
  retryCall.state # "idle" =>
    LET failures == Len(retryCall.raised) IN
    /\ retryCall.state = "returned"
         => retryCall.calls = failures + 1 /\ failures < retryCall.maxAttempts
    /\ retryCall.state = "threw" <=> failures = retryCall.maxAttempts
    /\ retryCall.state = "threw"
         => /\ retryCall.calls = retryCall.maxAttempts
            /\ retryCall.thrown.isError
            /\ retryCall.thrown.message = retryCall.raised[failures].message
C17_Witness ==
  /\ retryCall.state = "threw"
  /\ retryCall.maxAttempts = 3
  /\ retryCall.raised[1].message # retryCall.raised[3].message
  /\ ~retryCall.raised[3].isError

\* C18: in a document-readiness poll, once the page has shown an explicit
\* error indicator during observation k the poll has stopped at observation k
\* with a failure.
C18_ErrorIndicatorStopsPoll ==
  (poll.state # "idle" /\ poll.errorAt # 0)
  => poll.state = "failed" /\ poll.attempt = poll.errorAt

C20_RegexFallbackExactlyOnce ==
  (extraction.state = "failed" /\ extraction.emptyExtracts >= 1)
  => extraction.textReads = 1

\* C21: loading the application history always returns; after a load from a
\* missing file the ledger is empty, and after a load from a corrupt file
\* the problem has been logged and the ledger is empty.
C21_LoadToleratesBadStorage ==
  (ledgerOp.state # "idle" /\ ledgerOp.last = "load")
  => /\ ledgerOp.read.kind = "missing" => ledgerOp.map = EmptyMap
     /\ IsCorrupt(ledgerOp.read)
          => ledgerOp.map = EmptyMap /\ ledgerOp.log = <<"errorLoading">>

\* C22: after updatePersistedApplicationDownloadStatus for plot p, every
\* other entry is as before; an existing entry of p differs at most in
\* downloaded and lastChecked; with no entry for p nothing is created and a
\* warning has been logged.
C22_MarkDownloadedFrame ==
  (ledgerOp.state # "idle" /\ ledgerOp.last = "update")
  => LET p == ledgerOp.plot IN
     /\ \A q \in PlotSet \ {p} : ledgerOp.map[q] = ledgerOp.before[q]
     /\ ledgerOp.before[p] # NullItem
          => /\ ledgerOp.map[p].plotNumber = p
             /\ ledgerOp.map[p].applicationId = ledgerOp.before[p].applicationId
             /\ ledgerOp.map[p].paymentDate = ledgerOp.before[p].paymentDate
     /\ ledgerOp.before[p] = NullItem
          => ledgerOp.map[p] = NullItem /\ Len(ledgerOp.log) > 0

\* C23: a spreadsheet with no plot column or no plot rows never lets the run
\* reach the batch loop, and the run that failed on it has not launched the
\* browser, navigated or logged in.
C23_SheetErrorBeforeBrowser ==
  (startup.state # "idle"
   /\ startup.sheet.exists /\ startup.sheet.readable
   /\ PlotRows(startup.sheet.data) = {})
  => /\ startup.state # "batch"
     /\ startup.error \in {"Excel file is empty", "No plot numbers found"}
          => /\ ~startup.browserLaunched
             /\ ~startup.navigated
             /\ ~startup.loggedIn

\* C24: when the batch-wide check has aborted the batch, the final summary
\* is produced and shows every plot of the list as skipped (not attempted)
\* and no payment.
C24_AbortReportsAllNotAttempted ==
  (agent = "AffectionPlan" /\ pc = "aborted" /\ abortCause = "batchFunds")
  => /\ FinalSummaryShown
     /\ FinalSummary.plotsSkipped = Len(plots)
     /\ FinalSummary.paidPlots = 0

\* C25: the download phase of the Title Deed agent ends only when every
\* application is downloaded or has used its MAX_DOWNLOAD_RETRIES retries.
C25_RetryUntilDownloadedOrMaxed ==
  [][(agent = "TitleDeed" /\ pc \in {"tdRetry", "tdDownload"}
      /\ pc' \in {"done", "aborted"})
     => \A k \in 1..Len(applications') :
          \/ applications'[k].downloaded
          \/ applications'[k].retries >= MAX_DOWNLOAD_RETRIES]_vars

\* C26: when a run has ended after its main loop, every record that is paid
\* and not downloaded has had one more download attempt in a recovery pass:
\* it is one of the records the pass selected.
C26_RecoveryForEveryPaidNotDownloaded ==
  pc = "done" =>
    /\ agent = "SitePlan" =>
         \A k \in 1..Len(sitePlans) :
           (sitePlans[k].paid /\ ~sitePlans[k].certificateDownloaded)
           => \E n \in 1..Len(failedDownloads) : failedDownloads[n] = k
    /\ IsAffection(agent) =>
         \A k \in 1..Len(results) :
           ~(results[k].paymentCompleted /\ ~results[k].downloadCompleted)

\* C27: a plot whose pay click was answered by the portal with an error
\* page (the click went through, no payment was taken) is never recorded as
\* paid, and its record carries an error.
C27_ErrorIndicatorNotPaid ==
  /\ \A k \in 1..Len(sitePlans) :
       LET r == sitePlans[k] IN
       (runPay[r.plotNumber] /\ ~charged[r.plotNumber])
       => ~r.paid /\ r.error # "none"
  /\ \A k \in 1..Len(results) :
       LET r == results[k] IN
       (runPay[r.plotNumber] /\ ~charged[r.plotNumber])
       => ~r.paymentCompleted /\ r.error # "none"

\* C28: at the end of a run, every plot for which the portal took a payment
\* has a record in the report that shows the payment as completed.
C28_ChargedReportedPaid ==
  pc = "done" =>
    \A p \in PlotSet : charged[p] =>
      \/ \E k \in 1..Len(sitePlans) :
           sitePlans[k].plotNumber = p /\ sitePlans[k].paid
      \/ \E k \in 1..Len(results) :
           results[k].plotNumber = p /\ results[k].paymentCompleted


\* C29: a plot for which no application id was extracted ends as
\* ExtractionFailed: the agent neither validates funds nor performs a pay
\* action for it, so the payment steps are only ever entered with an id
C29_NoIdNoFundsNoPay ==
  /\ (agent = "SitePlan" /\ pc \in {"selectWallet", "funds", "pay", "payClick", "verifyPayment"})
       => record.applicationId # NoApplicationId
  /\ (IsAffection(agent) /\ pc \in {"affWallet", "affFunds", "affPay", "affPayClick", "affAwait"})
       => applicationId # NoApplicationId


C31_UnparsableIsErrorNoPay ==
  (fundsCheck.state = "decided"
   /\ (~HasDigit(fundsCheck.balanceText) \/ ~HasDigit(fundsCheck.amountText)))
  => fundsCheck.outcome = "Error" /\ ~fundsCheck.payInvoked

\* C31 witness: the Affection Plan agent has decided Error for a page whose
\* balance text holds no digit while the fee is a number
C31_Witness ==
  /\ fundsCheck.state = "decided"
  /\ fundsCheck.agent = "AffectionPlan"
  /\ ~HasDigit(fundsCheck.balanceText) /\ fundsCheck.balanceText # << >>
  /\ HasDigit(fundsCheck.amountText)
  /\ fundsCheck.outcome = "Error"

\* C32: the pay step is only invoked for a plot after the agent has read
\* the checked payment option from the page and found the DARI wallet
\* checked, so the wallet is the checked option when the pay step begins
C32_PayOnlyAfterWalletConfirmed ==
  (selection.state = "paying" /\ selection.payInvoked)
  => selection.confirmed /\ selection.checked = "wallet"

\* C33: the login is declared successful only by a check in which the URL
\* was off the authentication pages and the page observation confirmed
\* login indicators; a URL that has left the authentication pages is not
\* enough
C33_LoginNeedsUrlAndIndicators ==
  login.state = "loggedIn" => login.urlLeft /\ login.indicators

\* C33 witness: a login declared successful at a later check, after checks
\* that did not succeed
C33_Witness ==
  login.state = "loggedIn" /\ login.attempt > 1 /\ login.urlLeft /\ login.indicators

\* C34: every wait made while a plot is processed is bounded: a wait that
\* has started ends, as ready, as an error or with its cap exhausted
C34_EveryPlotWaitEnds ==
  (poll.state = "polling") ~> (poll.state # "polling")

\* C35: when the batch loop has run to its end, the report holds exactly
\* one record for each plot of the input list, in the order of the file
C35_OneRecordPerPlotInOrder ==
  /\ (agent = "SitePlan" /\ pc \in {"recovery", "recoverOne", "done"})
       => /\ Len(sitePlans) = Len(plots)
          /\ \A k \in 1..Len(plots) : sitePlans[k].plotNumber = plots[k]
  /\ (agent = "AffectionPlan" /\ pc = "done")
       => /\ Len(results) = Len(plots)
          /\ \A k \in 1..Len(plots) : results[k].plotNumber = plots[k]

\* C36: a record that was marked downloaded after the download action was
\* clicked has a ledger entry, and that entry is marked downloaded
C36_DownloadedRecordHasLedgerEntry ==
  agent = "SitePlan" =>
    \A k \in 1..Len(sitePlans) : LET r == sitePlans[k] IN
      (r.certificateDownloaded /\ r.downloadAttempts > 0)
      => /\ HasEntry(persistedApplications, r.plotNumber)
         /\ persistedApplications[r.plotNumber].downloaded

\* C37: in every state a record marked downloaded is also marked paid, for
\* the Site Plan records (the one being built and the ones reported) and
\* for the Affection Plan results
C37_DownloadedImpliesPaid ==
  /\ (record.certificateDownloaded => record.paid)
  /\ \A k \in 1..Len(sitePlans) :
       sitePlans[k].certificateDownloaded => sitePlans[k].paid
  /\ \A k \in 1..Len(results) :
       results[k].downloadCompleted => results[k].paymentCompleted

\* C37 witness: a reported record of a plot paid and downloaded in this run
C37_Witness ==
  \E k \in 1..Len(sitePlans) :
    /\ sitePlans[k].certificateDownloaded /\ sitePlans[k].paid
    /\ sitePlans[k].downloadAttempts > 0 /\ runPay[sitePlans[k].plotNumber]

\* C38: the downloaded flag of a ledger entry is monotone: once the stored
\* ledger marks a plot downloaded no step, of this run or of a later one,
\* leaves it stored as not downloaded
C38_DownloadedFlagMonotone ==
  [][ \A p \in PlotSet :
        (storage.exists /\ storage.entries[p].downloaded)
        => (storage'.exists /\ storage'.entries[p].downloaded) ]_vars

\* C39: Title Deed agent: the retries counter of every application record
\* is at most MAX_DOWNLOAD_RETRIES in every state
C39_RetriesAtMostMax ==
  agent = "TitleDeed" =>
    \A k \in 1..Len(applications) : applications[k].retries <= MAX_DOWNLOAD_RETRIES

====
